---- MODULE Spec2Model ----
(***************************************************************************)
(* A model of the Verilog front end: VerilogLexer.tokenize (lexer.py),     *)
(* VerilogParser.parse (parser.py) and SymbolTable (symbol_table.py).      *)
(*                                                                         *)
(* Text is a sequence of one-character strings.  Python positions are      *)
(* 0-based (pos, current); TLA+ sequences are 1-based, so the character at *)
(* Python index pos is line[pos + 1].                                      *)
(***************************************************************************)
EXTENDS Integers, Sequences, FiniteSets, TLC

VARIABLES
    source,       \* tokenize: source_code
    lines,        \* tokenize: the lines of source_code
    line_num,     \* tokenize: 1-based number of the line being scanned
    pos,          \* tokenize: 0-based index in the current line
    column,       \* tokenize: 1-based column
    tokens,       \* tokenize: the list of tokens built so far
    pc,           \* tokenize: "lex" while scanning, "done" after the return
    input,        \* the lines chosen for the source of a parse
    p_tokens,     \* parser: self.tokens
    current,      \* parser: self.current
    symbol_table, \* parser: self.symbol_table
    module_name,  \* parse_module: module_name
    ports,        \* parse_module: ports
    items,        \* parse_module: items
    result,       \* the ModuleNode parse returned
    error,        \* the error parse raised
    ppc,          \* parse: "idle", "start", "body", "done" (returned), "error" (raised)
    reporter,     \* ErrorReporter: errors, warnings, source_code
    report,       \* what a reporting call returned or raised
    request,      \* compile_verilog: request.json
    hpc,          \* compile_verilog: the position in the handler
    app_result,   \* compile_verilog: result
    fixed_code,   \* compile_verilog: fixed_code
    fixes_applied,\* compile_verilog: fixes_applied
    fixed_result, \* compile_verilog: fixed_result
    calls,        \* the calls compile_verilog has made, with what they returned
    response      \* what compile_verilog returned

lexvars == <<source, lines, line_num, pos, column, tokens, pc>>
parsevars == <<input, p_tokens, current, symbol_table, module_name, ports, items,
               result, error, ppc>>
reportvars == <<reporter, report>>
appvars == <<request, hpc, app_result, fixed_code, fixes_applied, fixed_result, calls,
             response>>
vars == <<lexvars, parsevars, reportvars, appvars>>

-----------------------------------------------------------------------------
(* Bounds of the model                                                     *)

MaxSourceLen == 4

-----------------------------------------------------------------------------
(* Character classes of the regular expressions (ASCII)                    *)

LowerLetters == <<"a","b","c","d","e","f","g","h","i","j","k","l","m",
                  "n","o","p","q","r","s","t","u","v","w","x","y","z">>
UpperLetters == <<"A","B","C","D","E","F","G","H","I","J","K","L","M",
                  "N","O","P","Q","R","S","T","U","V","W","X","Y","Z">>

Range(s) == {s[i] : i \in DOMAIN s}

Digits      == {"0","1","2","3","4","5","6","7","8","9"}
Letters     == Range(LowerLetters) \cup Range(UpperLetters)
IdentStart  == Letters \cup {"_"}
IdentChar   == Letters \cup Digits \cup {"_"}
BinDigits   == {"0","1","_"}
HexDigits   == Digits \cup {"a","b","c","d","e","f","A","B","C","D","E","F","_"}
OctDigits   == {"0","1","2","3","4","5","6","7","_"}
SpaceChars  == {" ", "\t", "\r", "\f"}   \* white space within one line
BlankChars  == {" ", "\t"}   \* space and tab

\* str.lower() on one character
LowerChar(c) ==
    IF \E i \in DOMAIN UpperLetters : UpperLetters[i] = c
    THEN LowerLetters[CHOOSE i \in DOMAIN UpperLetters : UpperLetters[i] = c]
    ELSE c

\* a plausible slip: the keyword table is consulted with the text as written
LowerAsWritten(v) == v

\* str.lower()
Lower(v) == [i \in DOMAIN v |-> LowerChar(v[i])]

\* The grave accent that starts preprocessor directives.  A TLA+ string cannot
\* hold that character, so this one-character atom stands for it.
Backquote == "<grave>"

Min(S) == CHOOSE x \in S : \A y \in S : x <= y

-----------------------------------------------------------------------------
(* Token and the keyword table                                             *)

Token(type, value, line, col) ==
    [type |-> type, value |-> value, line |-> line, column |-> col]

keywords ==
    << << <<"m","o","d","u","l","e">>,             "MODULE" >>,
       << <<"e","n","d","m","o","d","u","l","e">>, "ENDMODULE" >>,
       << <<"i","n","p","u","t">>,                 "INPUT" >>,
       << <<"o","u","t","p","u","t">>,             "OUTPUT" >>,
       << <<"i","n","o","u","t">>,                 "INOUT" >>,
       << <<"w","i","r","e">>,                     "WIRE" >>,
       << <<"r","e","g">>,                         "REG" >>,
       << <<"a","s","s","i","g","n">>,             "ASSIGN" >>,
       << <<"a","l","w","a","y","s">>,             "ALWAYS" >>,
       << <<"i","n","i","t","i","a","l">>,         "INITIAL" >>,
       << <<"b","e","g","i","n">>,                 "BEGIN" >>,
       << <<"e","n","d">>,                         "END" >>,
       << <<"i","f">>,                             "IF" >>,
       << <<"e","l","s","e">>,                     "ELSE" >>,
       << <<"p","o","s","e","d","g","e">>,         "POSEDGE" >>,
       << <<"n","e","g","e","d","g","e">>,         "NEGEDGE" >>,
       << <<"o","r">>,                             "SENS_OR" >>,
       << <<"f","o","r","e","v","e","r">>,         "FOREVER" >> >>

\* self.keywords.get(key, TokenType.IDENTIFIER)
KeywordsGet(key) ==
    IF \E i \in DOMAIN keywords : keywords[i][1] = key
    THEN keywords[CHOOSE i \in DOMAIN keywords : keywords[i][1] = key][2]
    ELSE "IDENTIFIER"

-----------------------------------------------------------------------------
(* token_patterns: the ordered pattern list.  Each entry names the shape   *)
(* of its regular expression; MatchLen gives the length of re.match at     *)
(* (line, pos), 0 when the pattern does not match there.                   *)

Lit(chars, type) == [re |-> "lit", lit |-> chars, type |-> type]
Sized(base, digs, type) == [re |-> "sized", base |-> base, digs |-> digs, type |-> type]
Shape(re, type) == [re |-> re, lit |-> <<>>, type |-> type]

token_patterns ==
    << Shape("include", "COMMENT"),
       Shape("define", "COMMENT"),
       Shape("directive", "COMMENT"),
       Shape("line_comment", "COMMENT"),
       Shape("block_comment", "COMMENT"),
       Sized({"b","B"}, BinDigits, "BINARY"),
       Sized({"h","H"}, HexDigits, "HEX"),
       Sized({"o","O"}, OctDigits, "OCTAL"),
       Shape("string", "STRING"),
       Shape("number", "NUMBER"),
       Lit(<<"<","=">>, "NON_BLOCKING"),
       Lit(<<"=">>, "ASSIGN_OP"),
       Lit(<<"&">>, "AND"),
       Lit(<<"|">>, "OR"),
       Lit(<<"~">>, "NOT"),
       Lit(<<"^">>, "XOR"),
       Lit(<<"+">>, "PLUS"),
       Lit(<<"-">>, "MINUS"),
       Lit(<<"*">>, "MULTIPLY"),
       Lit(<<"/">>, "DIVIDE"),
       Lit(<<"%">>, "MODULO"),
       Lit(<<"(">>, "LPAREN"),
       Lit(<<")">>, "RPAREN"),
       Lit(<<"{">>, "LBRACE"),
       Lit(<<"}">>, "RBRACE"),
       Lit(<<"[">>, "LBRACKET"),
       Lit(<<"]">>, "RBRACKET"),
       Lit(<<";">>, "SEMICOLON"),
       Lit(<<",">>, "COMMA"),
       Lit(<<".">>, "DOT"),
       Lit(<<":">>, "COLON"),
       Lit(<<"@">>, "AT"),
       Lit(<<"#">>, "HASH"),
       Lit(<<"$">>, "DOLLAR"),
       Shape("system_identifier", "IDENTIFIER"),
       Shape("identifier", "IDENTIFIER"),
       Lit(<<"\n">>, "NEWLINE"),
       Shape("blanks", "WHITESPACE") >>

\* the number of consecutive characters of line from index p on that are in S
RECURSIVE RunLen(_, _, _)
RunLen(line, p, S) ==
    IF p < Len(line) /\ line[p + 1] \in S THEN 1 + RunLen(line, p + 1, S) ELSE 0

\* a literal string at p
LitLen(line, p, lit) ==
    IF p + Len(lit) <= Len(line) /\ \A i \in DOMAIN lit : line[p + i] = lit[i]
    THEN Len(lit) ELSE 0

\* pattern 9: from a double quote to the next double quote of the line
StringLen(line, p) ==
    IF p < Len(line) /\ line[p + 1] = "\""
       /\ \E q \in (p + 1)..(Len(line) - 1) : line[q + 1] = "\""
    THEN Min({q \in (p + 1)..(Len(line) - 1) : line[q + 1] = "\""}) + 1 - p
    ELSE 0

\* pattern 1: backquote include, white space, a quoted string
IncludeLen(line, p) ==
    LET k == LitLen(line, p, <<Backquote,"i","n","c","l","u","d","e">>)
        s == RunLen(line, p + k, SpaceChars)
        q == StringLen(line, p + k + s)
    IN  IF k > 0 /\ s > 0 /\ q > 0 THEN k + s + q ELSE 0

\* pattern 2: backquote define, white space, a word, then the rest of the line
DefineLen(line, p) ==
    LET k == LitLen(line, p, <<Backquote,"d","e","f","i","n","e">>)
        s == RunLen(line, p + k, SpaceChars)
        w == RunLen(line, p + k + s, IdentChar)
    IN  IF k > 0 /\ s > 0 /\ w > 0 THEN Len(line) - p ELSE 0

\* pattern 3: backquote followed by an identifier
DirectiveLen(line, p) ==
    IF LitLen(line, p, <<Backquote>>) > 0 /\ RunLen(line, p + 1, IdentStart) > 0
    THEN 1 + RunLen(line, p + 1, IdentChar) ELSE 0

\* pattern 4: two slashes, then the rest of the line
LineCommentLen(line, p) ==
    IF LitLen(line, p, <<"/","/">>) > 0 THEN Len(line) - p ELSE 0

\* pattern 5: slash star ... star slash, non-greedy: up to the first star slash
\* that starts at p + 2 or later
BlockCommentLen(line, p) ==
    LET ends == {q \in (p + 2)..(Len(line) - 2) : LitLen(line, q, <<"*","/">>) > 0}
    IN  IF LitLen(line, p, <<"/","*">>) > 0 /\ ends # {}
        THEN Min(ends) + 2 - p ELSE 0

\* patterns 6-8: digits, apostrophe, base letter, one or more base digits
SizedLen(line, p, base, digs) ==
    LET d == RunLen(line, p, Digits)
        r == RunLen(line, p + d + 2, digs)
    IN  IF d > 0 /\ p + d + 1 < Len(line) /\ line[p + d + 1] = "'"
           /\ line[p + d + 2] \in base /\ r > 0
        THEN d + 2 + r ELSE 0

\* identifier: a letter or underscore, then letters, digits, underscores
IdentifierLen(line, p) ==
    IF RunLen(line, p, IdentStart) > 0 THEN RunLen(line, p, IdentChar) ELSE 0

\* pattern.match(line, pos): the length of the match, 0 for no match
MatchLen(pat, line, p) ==
    CASE pat.re = "lit"               -> LitLen(line, p, pat.lit)
      [] pat.re = "sized"             -> SizedLen(line, p, pat.base, pat.digs)
      [] pat.re = "include"           -> IncludeLen(line, p)
      [] pat.re = "define"            -> DefineLen(line, p)
      [] pat.re = "directive"         -> DirectiveLen(line, p)
      [] pat.re = "line_comment"      -> LineCommentLen(line, p)
      [] pat.re = "block_comment"     -> BlockCommentLen(line, p)
      [] pat.re = "string"            -> StringLen(line, p)
      [] pat.re = "number"            -> RunLen(line, p, Digits)
      [] pat.re = "system_identifier" ->
            IF LitLen(line, p, <<"$">>) > 0 /\ IdentifierLen(line, p + 1) > 0
            THEN 1 + IdentifierLen(line, p + 1) ELSE 0
      [] pat.re = "identifier"        -> IdentifierLen(line, p)
      [] pat.re = "blanks"            -> RunLen(line, p, BlankChars)

\* the for loop over compiled_patterns: the index of the first pattern that
\* matches at (line, pos), 0 when none does (match_found stays False)
FirstMatch(line, p) ==
    LET hits == {i \in DOMAIN token_patterns : MatchLen(token_patterns[i], line, p) > 0}
    IN  IF hits = {} THEN 0 ELSE Min(hits)

\* source_code.split at newline
RECURSIVE SplitLines(_)
SplitLines(src) ==
    IF \E i \in DOMAIN src : src[i] = "\n"
    THEN LET i == Min({j \in DOMAIN src : src[j] = "\n"})
         IN  <<SubSeq(src, 1, i - 1)>> \o SplitLines(SubSeq(src, i + 1, Len(src)))
    ELSE <<src>>

\* a plausible slip: the quotes of a string literal are stripped from its text
MatchGroupUnquoted(type, line, p, n) ==
    IF type = "STRING" THEN SubSeq(line, p + 2, p + n - 1) ELSE SubSeq(line, p + 1, p + n)

\* value = match.group(0): the matched text itself, whatever the pattern
MatchGroup(type, line, p, n) == SubSeq(line, p + 1, p + n)

\* a plausible slip: the unrecognized character is dropped without a token
UnknownScanSilent(line, ln, p, col) == [emit |-> <<>>, len |-> 1]

\* match_found is False: one UNKNOWN token for the character line[pos], and
\* pos and column advance by one
UnknownScan(line, ln, p, col) ==
    [emit |-> <<Token("UNKNOWN", <<line[p + 1]>>, ln, col)>>, len |-> 1]

\* a plausible slip: white space and comments are emitted like other matches
ScanWithBlanks(i, line, ln, p, col) ==
    IF i = 0
    THEN UnknownScan(line, ln, p, col)
    ELSE LET n     == MatchLen(token_patterns[i], line, p)
             type  == token_patterns[i].type
             value == MatchGroup(type, line, p, n)
         IN  [emit |-> <<Token(IF type = "IDENTIFIER"
                               THEN KeywordsGet(Lower(value)) ELSE type,
                               value, ln, col)>>,
              len |-> n]

\* the body of the while loop at (line, pos) once the for loop has ended with
\* pattern i (0: none matched): the tokens appended, the characters consumed
ScanWith(i, line, ln, p, col) ==
    IF i = 0
    THEN UnknownScan(line, ln, p, col)
    ELSE LET n     == MatchLen(token_patterns[i], line, p)
             type  == token_patterns[i].type
             value == MatchGroup(type, line, p, n)
         IN  IF type \in {"WHITESPACE", "COMMENT"}
             THEN [emit |-> <<>>, len |-> n]
             ELSE [emit |-> <<Token(IF type = "IDENTIFIER"
                                    THEN KeywordsGet(Lower(value)) ELSE type,
                                    value, ln, col)>>,
                   len |-> n]

\* one iteration of the while loop at (line, pos)
Scan(line, ln, p, col) == ScanWith(FirstMatch(line, p), line, ln, p, col)

\* the while loop over one line, from (pos, column) to the end of the line
RECURSIVE TokenizeLine(_, _, _, _)
TokenizeLine(line, ln, p, col) ==
    IF p < Len(line)
    THEN LET s == Scan(line, ln, p, col)
         IN  s.emit \o TokenizeLine(line, ln, p + s.len, col + s.len)
    ELSE <<>>

\* the for loop over the lines, from line number ln on
RECURSIVE TokenizeLines(_, _)
TokenizeLines(ls, ln) ==
    IF ln <= Len(ls)
    THEN TokenizeLine(ls[ln], ln, 0, 1) \o TokenizeLines(ls, ln + 1)
    ELSE <<>>

\* a plausible slip: the EOF token is put on the line after the last one
EofTokenNextLine(ls) == Token("EOF", <<>>, Len(ls) + 1, 1)

\* a plausible slip: the EOF token is put on the first line
EofTokenFirstLine(ls) == Token("EOF", <<>>, 1, 1)

\* final_line = len(lines); the EOF token has empty text, that line, column 1
EofToken(ls) == Token("EOF", <<>>, Len(ls), 1)

\* tokenize(source_code), as one function
Tokenize(src) ==
    LET ls == SplitLines(src)
    IN  TokenizeLines(ls, 1) \o <<EofToken(ls)>>

-----------------------------------------------------------------------------
(* symbol_table.py: Symbol, Scope, SymbolTable                             *)
(*                                                                         *)
(* A symbol table value st is a record: scopes, the arena of every Scope   *)
(* created (scope 1 is the global scope; parent is an index, 0 for none),  *)
(* scope_stack, a sequence of scope indices, and current_scope, an index.  *)
(* A scope's symbols dict is the sequence of its Symbol records in         *)
(* insertion order; its keys are the names of the records.                 *)

\* Python None where a string is expected (no text is this one-atom sequence)
None == <<"None">>

\* Python None where a line number is expected (no line number is negative)
NoLine == -1

GlobalName == <<"g","l","o","b","a","l">>

\* the symbol_type the parser gives to ports
PortKind == <<"p","o","r","t">>

Symbol(name, symbol_type, data_type, line) ==
    [name |-> name, symbol_type |-> symbol_type, data_type |-> data_type,
     scope |-> None, line |-> line]

Scope(name, parent) == [name |-> name, parent |-> parent, symbols |-> <<>>]

\* SymbolTable.__init__
NewSymbolTable ==
    [scopes |-> <<Scope(GlobalName, 0)>>, current_scope |-> 1, scope_stack |-> <<1>>]

\* name in self.symbols
HasSymbol(sc, name) == \E i \in DOMAIN sc.symbols : sc.symbols[i].name = name

\* Scope.lookup: self.symbols.get(name); the index of the entry, 0 for None
ScopeLookup(sc, name) ==
    IF HasSymbol(sc, name)
    THEN CHOOSE i \in DOMAIN sc.symbols : sc.symbols[i].name = name
    ELSE 0

\* Scope.lookup_recursive: the scope index and entry index of the symbol found
\* in scope s or its ancestors; scope 0 when there is none
RECURSIVE LookupRecursive(_, _, _)
LookupRecursive(st, s, name) ==
    IF ScopeLookup(st.scopes[s], name) # 0
    THEN [scope |-> s, entry |-> ScopeLookup(st.scopes[s], name)]
    ELSE IF st.scopes[s].parent # 0
         THEN LookupRecursive(st, st.scopes[s].parent, name)
         ELSE [scope |-> 0, entry |-> 0]

\* a plausible slip: only the current scope is searched
lookupCurrentOnly(st, name) ==
    IF HasSymbol(st.scopes[st.current_scope], name)
    THEN [scope |-> st.current_scope,
          entry |-> ScopeLookup(st.scopes[st.current_scope], name)]
    ELSE [scope |-> 0, entry |-> 0]

\* SymbolTable.lookup
lookup(st, name) == LookupRecursive(st, st.current_scope, name)

SymbolAt(st, ref) == st.scopes[ref.scope].symbols[ref.entry]

\* a plausible slip: every new scope is made a child of the global scope
enter_scopeUnderGlobal(st, name) ==
    LET new == Len(st.scopes) + 1
    IN  [scopes |-> Append(st.scopes, Scope(name, 1)),
         current_scope |-> new,
         scope_stack |-> Append(st.scope_stack, new)]

\* SymbolTable.enter_scope
enter_scope(st, name) ==
    LET new == Len(st.scopes) + 1
    IN  [scopes |-> Append(st.scopes, Scope(name, st.current_scope)),
         current_scope |-> new,
         scope_stack |-> Append(st.scope_stack, new)]

\* a plausible slip: the scope is popped but stays the current scope
exit_scopeKeepCurrent(st) ==
    IF Len(st.scope_stack) <= 1
    THEN st
    ELSE [st EXCEPT !.scope_stack = SubSeq(st.scope_stack, 1, Len(st.scope_stack) - 1)]

\* SymbolTable.exit_scope
exit_scope(st) ==
    IF Len(st.scope_stack) <= 1
    THEN st
    ELSE LET stack == SubSeq(st.scope_stack, 1, Len(st.scope_stack) - 1)
         IN  [st EXCEPT !.scope_stack = stack, !.current_scope = stack[Len(stack)]]

\* what exit_scope returns: the scope it popped, 0 for None
ExitedScope(st) ==
    IF Len(st.scope_stack) <= 1 THEN 0 ELSE st.scope_stack[Len(st.scope_stack)]

VerilogSemanticError(message, line) ==
    [type |-> "VerilogSemanticError", message |-> message, line |-> line, column |-> 0]

\* the text of a line number inside an f-string
FormatLine(line) == IF line = NoLine THEN "None" ELSE ToString(line)

\* a plausible slip: the new symbol takes the place of the earlier one before
\* the error is raised
declareReplacing(st, name, symbol_type, data_type, line) ==
    LET cs  == st.scopes[st.current_scope]
        sym == [Symbol(name, symbol_type, data_type, line) EXCEPT !.scope = cs.name]
    IN  IF HasSymbol(cs, name)
        THEN [ok |-> FALSE,
              st |-> [st EXCEPT !.scopes[st.current_scope].symbols[ScopeLookup(cs, name)] = sym],
              err |-> VerilogSemanticError(
                        <<"Symbol '", name, "' already declared in scope '", cs.name,
                          "' (previous declaration at line ",
                          FormatLine(cs.symbols[ScopeLookup(cs, name)].line), ")">>,
                        IF line = NoLine THEN 0 ELSE line)]
        ELSE [ok |-> TRUE,
              st |-> [st EXCEPT !.scopes[st.current_scope].symbols = Append(cs.symbols, sym)],
              err |-> None]

\* SymbolTable.declare with Scope.declare: the symbol is added to the current
\* scope, or a VerilogSemanticError is raised (at line "line or 0") when the
\* current scope already has the name
declare(st, name, symbol_type, data_type, line) ==
    LET cs  == st.scopes[st.current_scope]
        sym == [Symbol(name, symbol_type, data_type, line) EXCEPT !.scope = cs.name]
    IN  IF HasSymbol(cs, name)
        THEN [ok |-> FALSE, st |-> st,
              err |-> VerilogSemanticError(
                        <<"Symbol '", name, "' already declared in scope '", cs.name,
                          "' (previous declaration at line ",
                          FormatLine(cs.symbols[ScopeLookup(cs, name)].line), ")">>,
                        IF line = NoLine THEN 0 ELSE line)]
        ELSE [ok |-> TRUE,
              st |-> [st EXCEPT !.scopes[st.current_scope].symbols = Append(cs.symbols, sym)],
              err |-> None]

-----------------------------------------------------------------------------
(* parser.py: cursor helpers.  toks is self.tokens, cur is self.current.   *)

\* what peek returns past the end of the tokens
NoToken == [type |-> "None", value |-> None, line |-> 0, column |-> 0]

\* VerilogParser.peek, offset 0
peek(toks, cur) == IF cur < Len(toks) THEN toks[cur + 1] ELSE NoToken

\* VerilogParser.match
match(toks, cur, types) == cur < Len(toks) /\ toks[cur + 1].type \in types

\* VerilogParser.get_current_line
get_current_line(toks, cur) == IF cur < Len(toks) THEN toks[cur + 1].line ELSE 1

\* VerilogSyntaxError(message, line): column and token keep their defaults
VerilogSyntaxError(message, line) ==
    [type |-> "VerilogSyntaxError", message |-> message, line |-> line, column |-> 0]

\* the outcome of a parsing method: ok with the node built and the cursor
\* after it, or the error raised and the cursor where it was raised
Ok(cur, node) == [ok |-> TRUE, cur |-> cur, node |-> node, err |-> None]
Raise(cur, err) == [ok |-> FALSE, cur |-> cur, node |-> None, err |-> err]

\* a plausible slip: the found kind is reported one token too late
expectLate(toks, cur, type) ==
    IF match(toks, cur, {type})
    THEN Ok(cur + 1, toks[cur + 1])
    ELSE Raise(cur + 1, VerilogSyntaxError(
               <<"Expected ", type, ", found ",
                 IF cur + 1 < Len(toks) THEN toks[cur + 2].type ELSE "EOF">>,
               get_current_line(toks, cur + 1)))

\* VerilogParser.expect: the node of the outcome is the token consumed
expect(toks, cur, type) ==
    IF match(toks, cur, {type})
    THEN Ok(cur + 1, toks[cur + 1])
    ELSE Raise(cur, VerilogSyntaxError(
               <<"Expected ", type, ", found ",
                 IF cur < Len(toks) THEN toks[cur + 1].type ELSE "EOF">>,
               get_current_line(toks, cur)))

-----------------------------------------------------------------------------
(* ast_nodes.py: the nodes the parser builds                               *)

\* no node: what parse_module_item returns for a skipped token, and the value
\* of result before parse returns
NoNode == [node |-> "None"]

IdentifierNode(name) == [node |-> "IdentifierNode", name |-> name]
NumberNode(value) == [node |-> "NumberNode", value |-> value]
StringNode(value) == [node |-> "StringNode", value |-> value]
UnaryOpNode(op, operand) == [node |-> "UnaryOpNode", operator |-> op, operand |-> operand]
BinaryOpNode(left, op, right) ==
    [node |-> "BinaryOpNode", left |-> left, operator |-> op, right |-> right]
IndexNode(id, index) == [node |-> "IndexNode", identifier |-> id, index |-> index]
IndexRangeNode(id, msb, lsb) ==
    [node |-> "IndexRangeNode", identifier |-> id, msb |-> msb, lsb |-> lsb]
RangeNode(msb, lsb) == [node |-> "RangeNode", msb |-> msb, lsb |-> lsb]
PortNode(name, direction, range_spec) ==
    [node |-> "PortNode", name |-> name, direction |-> direction, range_spec |-> range_spec]
PortDeclarationNode(direction, names, range_spec) ==
    [node |-> "PortDeclarationNode", direction |-> direction, names |-> names,
     range_spec |-> range_spec]
NetDeclarationNode(net_type, names, range_spec) ==
    [node |-> "NetDeclarationNode", net_type |-> net_type, names |-> names,
     range_spec |-> range_spec]
AssignNode(target, src) == [node |-> "AssignNode", target |-> target, source |-> src]
AlwaysNode(sens, statement) ==
    [node |-> "AlwaysNode", sensitivity_list |-> sens, statement |-> statement]
InitialNode(statement) == [node |-> "InitialNode", statement |-> statement]
DelayNode(delay, statement) == [node |-> "DelayNode", delay |-> delay, statement |-> statement]
ForeverNode(statement) == [node |-> "ForeverNode", statement |-> statement]
SystemTaskNode(task_name, args) ==
    [node |-> "SystemTaskNode", task_name |-> task_name, args |-> args]
BlockNode(statements) == [node |-> "BlockNode", statements |-> statements]
IfNode(condition, then_stmt, else_stmt) ==
    [node |-> "IfNode", condition |-> condition, then_stmt |-> then_stmt,
     else_stmt |-> else_stmt]
AssignmentNode(target, src, op) ==
    [node |-> "AssignmentNode", target |-> target, source |-> src, operator |-> op]
PortConnectionNode(port_name, signal) ==
    [node |-> "PortConnectionNode", port_name |-> port_name, signal |-> signal]
ModuleInstantiationNode(module_type, instance_name, connections) ==
    [node |-> "ModuleInstantiationNode", module_type |-> module_type,
     instance_name |-> instance_name, connections |-> connections]
ModuleNode(name, port_nodes, item_nodes) ==
    [node |-> "ModuleNode", name |-> name, ports |-> port_nodes, items |-> item_nodes]

-----------------------------------------------------------------------------
(* parser.py: expressions                                                  *)

\* a plausible slip: the OR and AND levels exchanged
LevelOpsSwapped(level) ==
    CASE level = "or"             -> {"AND"}
      [] level = "and"            -> {"OR"}
      [] level = "xor"            -> {"XOR"}
      [] level = "additive"       -> {"PLUS", "MINUS"}
      [] level = "multiplicative" -> {"MULTIPLY", "DIVIDE", "MODULO"}

\* the token kinds each parse_<level>_expression folds in its while loop
LevelOps(level) ==
    CASE level = "or"             -> {"OR"}
      [] level = "and"            -> {"AND"}
      [] level = "xor"            -> {"XOR"}
      [] level = "additive"       -> {"PLUS", "MINUS"}
      [] level = "multiplicative" -> {"MULTIPLY", "DIVIDE", "MODULO"}

\* a call followed by the rest of the method: an exception raised by the call
\* leaves the method at once, otherwise the rest runs on the call's outcome
Then(r, rest(_)) == IF r.ok THEN rest(r) ELSE r

RECURSIVE parse_expression(_, _), parse_or_expression(_, _),
          parse_and_expression(_, _), parse_xor_expression(_, _),
          parse_additive_expression(_, _), parse_multiplicative_expression(_, _),
          parse_unary_expression(_, _), parse_primary_expression(_, _),
          Operand(_, _, _), FoldLoop(_, _, _)

\* the operand parser each level calls, the next tighter level
Operand(level, toks, cur) ==
    CASE level = "or"             -> parse_and_expression(toks, cur)
      [] level = "and"            -> parse_xor_expression(toks, cur)
      [] level = "xor"            -> parse_additive_expression(toks, cur)
      [] level = "additive"       -> parse_multiplicative_expression(toks, cur)
      [] level = "multiplicative" -> parse_unary_expression(toks, cur)

\* the while loop of a level: expr = BinaryOpNode(expr, op, right)
FoldLoop(level, toks, left) ==
    IF match(toks, left.cur, LevelOps(level))
    THEN Then(Operand(level, toks, left.cur + 1), LAMBDA right :
              FoldLoop(level, toks,
                       Ok(right.cur, BinaryOpNode(left.node, toks[left.cur + 1].value,
                                                  right.node))))
    ELSE left

\* a level: its first operand, then its while loop
Level(level, toks, cur) ==
    Then(Operand(level, toks, cur), LAMBDA first : FoldLoop(level, toks, first))

parse_expression(toks, cur) == parse_or_expression(toks, cur)
parse_or_expression(toks, cur) == Level("or", toks, cur)
parse_and_expression(toks, cur) == Level("and", toks, cur)
parse_xor_expression(toks, cur) == Level("xor", toks, cur)
parse_additive_expression(toks, cur) == Level("additive", toks, cur)
parse_multiplicative_expression(toks, cur) == Level("multiplicative", toks, cur)

parse_unary_expression(toks, cur) ==
    IF match(toks, cur, {"NOT"})
    THEN Then(parse_primary_expression(toks, cur + 1), LAMBDA e :
              Ok(e.cur, UnaryOpNode(toks[cur + 1].value, e.node)))
    ELSE parse_primary_expression(toks, cur)

\* parse_primary_expression after the opening bracket of an index
IndexSuffix(toks, cur, identifier) ==
    Then(parse_expression(toks, cur), LAMBDA first_index :
         IF match(toks, first_index.cur, {"COLON"})
         THEN Then(parse_expression(toks, first_index.cur + 1), LAMBDA second_index :
              Then(expect(toks, second_index.cur, "RBRACKET"), LAMBDA close :
                   Ok(close.cur, IndexRangeNode(identifier, first_index.node,
                                                second_index.node))))
         ELSE Then(expect(toks, first_index.cur, "RBRACKET"), LAMBDA close :
                   Ok(close.cur, IndexNode(identifier, first_index.node))))

parse_primary_expression(toks, cur) ==
    CASE match(toks, cur, {"IDENTIFIER"}) ->
            IF match(toks, cur + 1, {"LBRACKET"})
            THEN IndexSuffix(toks, cur + 2, IdentifierNode(toks[cur + 1].value))
            ELSE Ok(cur + 1, IdentifierNode(toks[cur + 1].value))
      [] match(toks, cur, {"NUMBER"}) -> Ok(cur + 1, NumberNode(toks[cur + 1].value))
      [] match(toks, cur, {"STRING"}) -> Ok(cur + 1, StringNode(toks[cur + 1].value))
      [] match(toks, cur, {"BINARY", "HEX", "OCTAL"}) ->
            Ok(cur + 1, NumberNode(toks[cur + 1].value))
      [] match(toks, cur, {"DOLLAR"}) ->
            Then(expect(toks, cur + 1, "IDENTIFIER"), LAMBDA name :
                 Ok(name.cur, IdentifierNode(<<"$">> \o name.node.value)))
      [] match(toks, cur, {"LPAREN"}) ->
            Then(parse_expression(toks, cur + 1), LAMBDA expr :
            Then(expect(toks, expr.cur, "RPAREN"), LAMBDA close :
                 Ok(close.cur, expr.node)))
      [] OTHER ->
            Raise(cur, VerilogSyntaxError(
                <<"Unexpected token '",
                  IF cur < Len(toks) THEN toks[cur + 1].value ELSE <<"E","O","F">>, "'">>,
                get_current_line(toks, cur)))

-----------------------------------------------------------------------------
(* parser.py: statements                                                   *)

RECURSIVE parse_statement(_, _), parse_block_statement(_, _), BlockLoop(_, _, _),
          parse_if_statement(_, _), parse_delay_statement(_, _),
          parse_forever_statement(_, _)

\* the while loop of parse_system_task: an expression after each comma; the
\* node of the outcome is the list of arguments
RECURSIVE ArgsLoop(_, _, _)
ArgsLoop(toks, cur, args) ==
    IF match(toks, cur, {"COMMA"})
    THEN Then(parse_expression(toks, cur + 1), LAMBDA e :
              ArgsLoop(toks, e.cur, Append(args, e.node)))
    ELSE Ok(cur, args)

\* parse_system_task, its argument list: the cursor is after the task name
SystemTaskArgs(toks, cur) ==
    IF ~match(toks, cur, {"LPAREN"}) THEN Ok(cur, <<>>)
    ELSE Then(IF match(toks, cur + 1, {"RPAREN"}) THEN Ok(cur + 1, <<>>)
              ELSE Then(parse_expression(toks, cur + 1), LAMBDA first :
                        ArgsLoop(toks, first.cur, <<first.node>>)),
              LAMBDA args :
         Then(expect(toks, args.cur, "RPAREN"), LAMBDA close :
              Ok(close.cur, args.node)))

parse_system_task(toks, cur) ==
    Then(expect(toks, cur + 1, "IDENTIFIER"), LAMBDA name :
    Then(SystemTaskArgs(toks, name.cur), LAMBDA args :
    Then(expect(toks, args.cur, "SEMICOLON"), LAMBDA semi :
         Ok(semi.cur, SystemTaskNode(<<"$">> \o name.node.value, args.node)))))

parse_assignment_statement(toks, cur) ==
    Then(parse_expression(toks, cur), LAMBDA target :
         IF ~match(toks, target.cur, {"ASSIGN_OP", "NON_BLOCKING"})
         THEN Raise(target.cur, VerilogSyntaxError(<<"Expected assignment operator">>,
                                                   get_current_line(toks, target.cur)))
         ELSE Then(parse_expression(toks, target.cur + 1), LAMBDA src :
              Then(expect(toks, src.cur, "SEMICOLON"), LAMBDA semi :
                   Ok(semi.cur, AssignmentNode(target.node, src.node,
                                               toks[target.cur + 1].value)))))

parse_statement(toks, cur) ==
    CASE match(toks, cur, {"BEGIN"})   -> parse_block_statement(toks, cur)
      [] match(toks, cur, {"IF"})      -> parse_if_statement(toks, cur)
      [] match(toks, cur, {"HASH"})    -> parse_delay_statement(toks, cur)
      [] match(toks, cur, {"FOREVER"}) -> parse_forever_statement(toks, cur)
      [] match(toks, cur, {"DOLLAR"})  -> parse_system_task(toks, cur)
      [] OTHER                         -> parse_assignment_statement(toks, cur)

\* a plausible slip: the end of the input closes an open block
BlockLoopClosedByEof(toks, cur, statements) ==
    IF match(toks, cur, {"END"})
    THEN Ok(cur + 1, BlockNode(statements))
    ELSE IF match(toks, cur, {"EOF"})
    THEN Ok(cur, BlockNode(statements))
    ELSE Then(parse_statement(toks, cur), LAMBDA st :
              BlockLoop(toks, st.cur, Append(statements, st.node)))

\* the while loop of parse_block_statement, then expect(END)
BlockLoop(toks, cur, statements) ==
    IF match(toks, cur, {"END"})
    THEN Ok(cur + 1, BlockNode(statements))
    ELSE IF match(toks, cur, {"EOF"})
    THEN Raise(cur, VerilogSyntaxError(<<"Expected 'end'">>, get_current_line(toks, cur)))
    ELSE Then(parse_statement(toks, cur), LAMBDA st :
              BlockLoop(toks, st.cur, Append(statements, st.node)))

parse_block_statement(toks, cur) ==
    Then(expect(toks, cur, "BEGIN"), LAMBDA begin : BlockLoop(toks, begin.cur, <<>>))

parse_if_statement(toks, cur) ==
    Then(expect(toks, cur, "IF"), LAMBDA kw :
    Then(expect(toks, kw.cur, "LPAREN"), LAMBDA open :
    Then(parse_expression(toks, open.cur), LAMBDA condition :
    Then(expect(toks, condition.cur, "RPAREN"), LAMBDA close :
    Then(parse_statement(toks, close.cur), LAMBDA then_stmt :
         IF match(toks, then_stmt.cur, {"ELSE"})
         THEN Then(parse_statement(toks, then_stmt.cur + 1), LAMBDA else_stmt :
                   Ok(else_stmt.cur,
                      IfNode(condition.node, then_stmt.node, else_stmt.node)))
         ELSE Ok(then_stmt.cur, IfNode(condition.node, then_stmt.node, None)))))))

parse_delay_statement(toks, cur) ==
    Then(expect(toks, cur, "HASH"), LAMBDA hash :
    Then(expect(toks, hash.cur, "NUMBER"), LAMBDA delay_value :
    Then(parse_statement(toks, delay_value.cur), LAMBDA statement :
         Ok(statement.cur, DelayNode(delay_value.node.value, statement.node)))))

parse_forever_statement(toks, cur) ==
    Then(expect(toks, cur, "FOREVER"), LAMBDA kw :
    Then(parse_statement(toks, kw.cur), LAMBDA statement :
         Ok(statement.cur, ForeverNode(statement.node))))

-----------------------------------------------------------------------------
(* parser.py: module items without declarations                            *)

parse_range(toks, cur) ==
    Then(expect(toks, cur, "LBRACKET"), LAMBDA open :
    Then(parse_expression(toks, open.cur), LAMBDA msb :
    Then(expect(toks, msb.cur, "COLON"), LAMBDA colon :
    Then(parse_expression(toks, colon.cur), LAMBDA lsb :
    Then(expect(toks, lsb.cur, "RBRACKET"), LAMBDA close :
         Ok(close.cur, RangeNode(msb.node, lsb.node)))))))

\* the optional range of a port or a declaration: None when no bracket follows
OptionalRange(toks, cur) ==
    IF match(toks, cur, {"LBRACKET"}) THEN parse_range(toks, cur) ELSE Ok(cur, None)

parse_assign_statement(toks, cur) ==
    Then(expect(toks, cur, "ASSIGN"), LAMBDA kw :
    Then(parse_expression(toks, kw.cur), LAMBDA target :
    Then(expect(toks, target.cur, "ASSIGN_OP"), LAMBDA eq :
    Then(parse_expression(toks, eq.cur), LAMBDA src :
    Then(expect(toks, src.cur, "SEMICOLON"), LAMBDA semi :
         Ok(semi.cur, AssignNode(target.node, src.node)))))))

\* the node of the outcome is the string "<edge> <signal>" or the signal name
parse_sensitivity_item(toks, cur) ==
    IF match(toks, cur, {"POSEDGE", "NEGEDGE"})
    THEN Then(expect(toks, cur + 1, "IDENTIFIER"), LAMBDA signal :
              Ok(signal.cur, toks[cur + 1].value \o <<" ">> \o signal.node.value))
    ELSE Then(expect(toks, cur, "IDENTIFIER"), LAMBDA signal :
              Ok(signal.cur, signal.node.value))

RECURSIVE SensLoop(_, _, _)
SensLoop(toks, cur, signals) ==
    IF match(toks, cur, {"SENS_OR"})
    THEN Then(parse_sensitivity_item(toks, cur + 1), LAMBDA item :
              SensLoop(toks, item.cur, Append(signals, item.node)))
    ELSE Ok(cur, signals)

parse_sensitivity_list(toks, cur) ==
    IF match(toks, cur, {"RPAREN"}) THEN Ok(cur, <<>>)
    ELSE Then(parse_sensitivity_item(toks, cur), LAMBDA item :
              SensLoop(toks, item.cur, <<item.node>>))

\* parse_always_block, its sensitivity list: the cursor is after ALWAYS
AlwaysSensitivity(toks, cur) ==
    IF ~match(toks, cur, {"AT"}) THEN Ok(cur, <<>>)
    ELSE IF ~match(toks, cur + 1, {"LPAREN"}) THEN Ok(cur + 1, <<>>)
    ELSE Then(parse_sensitivity_list(toks, cur + 2), LAMBDA list :
         Then(expect(toks, list.cur, "RPAREN"), LAMBDA close :
              Ok(close.cur, list.node)))

parse_always_block(toks, cur) ==
    Then(expect(toks, cur, "ALWAYS"), LAMBDA kw :
    Then(AlwaysSensitivity(toks, kw.cur), LAMBDA sens :
    Then(parse_statement(toks, sens.cur), LAMBDA statement :
         Ok(statement.cur, AlwaysNode(sens.node, statement.node)))))

parse_initial_statement(toks, cur) ==
    Then(expect(toks, cur, "INITIAL"), LAMBDA kw :
    Then(parse_statement(toks, kw.cur), LAMBDA statement :
         Ok(statement.cur, InitialNode(statement.node))))

parse_port_connection(toks, cur) ==
    Then(expect(toks, cur, "DOT"), LAMBDA dot :
    Then(expect(toks, dot.cur, "IDENTIFIER"), LAMBDA port_name :
    Then(expect(toks, port_name.cur, "LPAREN"), LAMBDA open :
    Then(parse_expression(toks, open.cur), LAMBDA signal :
    Then(expect(toks, signal.cur, "RPAREN"), LAMBDA close :
         Ok(close.cur, PortConnectionNode(port_name.node.value, signal.node)))))))

RECURSIVE ConnectionsLoop(_, _, _)
ConnectionsLoop(toks, cur, connections) ==
    IF match(toks, cur, {"COMMA"})
    THEN Then(parse_port_connection(toks, cur + 1), LAMBDA c :
              ConnectionsLoop(toks, c.cur, Append(connections, c.node)))
    ELSE Ok(cur, connections)

\* parse_module_instantiation, its connections: the cursor is after LPAREN
Connections(toks, cur) ==
    IF match(toks, cur, {"RPAREN"}) THEN Ok(cur, <<>>)
    ELSE Then(parse_port_connection(toks, cur), LAMBDA first :
              ConnectionsLoop(toks, first.cur, <<first.node>>))

parse_module_instantiation(toks, cur) ==
    Then(expect(toks, cur + 1, "IDENTIFIER"), LAMBDA instance_name :
    Then(expect(toks, instance_name.cur, "LPAREN"), LAMBDA open :
    Then(Connections(toks, open.cur), LAMBDA connections :
    Then(expect(toks, connections.cur, "RPAREN"), LAMBDA close :
    Then(expect(toks, close.cur, "SEMICOLON"), LAMBDA semi :
         Ok(semi.cur, ModuleInstantiationNode(toks[cur + 1].value,
                          instance_name.node.value, connections.node)))))))

-----------------------------------------------------------------------------
(* parser.py: ports and declarations.  These methods also change the       *)
(* symbol table, so their outcome carries it (st) as the method left it,   *)
(* on success and on a raise alike.                                        *)

With(r, st) == [ok |-> r.ok, cur |-> r.cur, node |-> r.node, err |-> r.err, st |-> st]

\* Then for a method that holds the symbol table st when it makes the call
ThenWith(r, st, rest(_)) == IF r.ok THEN rest(r) ELSE With(r, st)

\* names.append(self.expect(IDENTIFIER).value), repeated after each comma; the
\* node of the outcome is the list of names
RECURSIVE NamesLoop(_, _, _)
NamesLoop(toks, cur, names) ==
    IF match(toks, cur, {"COMMA"})
    THEN Then(expect(toks, cur + 1, "IDENTIFIER"), LAMBDA n :
              NamesLoop(toks, n.cur, Append(names, n.node.value)))
    ELSE Ok(cur, names)

ParseNames(toks, cur) ==
    Then(expect(toks, cur, "IDENTIFIER"), LAMBDA n :
         NamesLoop(toks, n.cur, <<n.node.value>>))

\* a plausible slip: an entry whose name is known writes its direction
RegisterPortOverwrite(st, port_name, direction) ==
    LET existing == lookup(st, port_name)
    IN  IF existing.scope = 0
        THEN declare(st, port_name, PortKind, direction, NoLine).st
        ELSE [st EXCEPT !.scopes[existing.scope].symbols[existing.entry].data_type =
                            direction]

\* parse_port, the symbol table part: the port is declared (kind "port", with
\* the direction, no line) only if lookup finds no symbol of that name
RegisterPort(st, port_name, direction) ==
    IF lookup(st, port_name).scope = 0
    THEN declare(st, port_name, PortKind, direction, NoLine).st
    ELSE st

\* parse_port after the optional direction: the cursor is at REG, WIRE, the
\* range or the name
PortRest(toks, cur, st, direction) ==
    ThenWith(OptionalRange(toks, IF match(toks, cur, {"REG", "WIRE"}) THEN cur + 1 ELSE cur),
             st, LAMBDA range :
    ThenWith(expect(toks, range.cur, "IDENTIFIER"), st, LAMBDA name :
         With(Ok(name.cur, PortNode(name.node.value, direction, range.node)),
              RegisterPort(st, name.node.value, direction))))

parse_port(toks, cur, st) ==
    IF match(toks, cur, {"INPUT", "OUTPUT", "INOUT"})
    THEN PortRest(toks, cur + 1, st, Lower(toks[cur + 1].value))
    ELSE PortRest(toks, cur, st, None)

RECURSIVE PortsLoop(_, _, _, _)
PortsLoop(toks, cur, st, port_nodes) ==
    IF match(toks, cur, {"COMMA"})
    THEN Then(parse_port(toks, cur + 1, st), LAMBDA port :
              PortsLoop(toks, port.cur, port.st, Append(port_nodes, port.node)))
    ELSE With(Ok(cur, port_nodes), st)

parse_port_list(toks, cur, st) ==
    IF match(toks, cur, {"RPAREN"}) THEN With(Ok(cur, <<>>), st)
    ELSE Then(parse_port(toks, cur, st), LAMBDA port :
              PortsLoop(toks, port.cur, port.st, <<port.node>>))

\* a plausible slip: a port declaration leaves every known symbol as it is
MergePortUnknownOnly(st, name, direction) ==
    IF lookup(st, name).scope = 0
    THEN declare(st, name, PortKind, direction, NoLine).st
    ELSE st

\* a plausible slip: a port declaration always writes its direction
MergePortOverwrite(st, name, direction) ==
    LET existing == lookup(st, name)
    IN  IF existing.scope = 0
        THEN declare(st, name, PortKind, direction, NoLine).st
        ELSE [st EXCEPT !.scopes[existing.scope].symbols[existing.entry].data_type =
                            direction]

\* parse_port_declaration, the body of its for loop: an unknown name is
\* declared as a port with the direction; a known symbol without data_type
\* gets the direction; any other known symbol is left as it is
MergePort(st, name, direction) ==
    LET existing == lookup(st, name)
    IN  IF existing.scope = 0
        THEN declare(st, name, PortKind, direction, NoLine).st
        ELSE IF SymbolAt(st, existing).data_type = None
        THEN [st EXCEPT !.scopes[existing.scope].symbols[existing.entry].data_type =
                            direction]
        ELSE st

RECURSIVE MergePorts(_, _, _)
MergePorts(st, names, direction) ==
    IF names = <<>> THEN st
    ELSE MergePorts(MergePort(st, Head(names), direction), Tail(names), direction)

parse_port_declaration(toks, cur, st) ==
    ThenWith(OptionalRange(toks, cur + 1), st, LAMBDA range :
    ThenWith(ParseNames(toks, range.cur), st, LAMBDA names :
    ThenWith(expect(toks, names.cur, "SEMICOLON"), st, LAMBDA semi :
         With(Ok(semi.cur, PortDeclarationNode(Lower(toks[cur + 1].value), names.node,
                                               range.node)),
              MergePorts(st, names.node, Lower(toks[cur + 1].value))))))

\* a plausible slip: a net declaration passes over the names already declared
RECURSIVE DeclareNetsUnknownOnly(_, _, _)
DeclareNetsUnknownOnly(st, names, net_type) ==
    IF names = <<>> THEN [ok |-> TRUE, st |-> st, err |-> None]
    ELSE LET d == declare(st, Head(names), net_type, None, NoLine)
         IN  DeclareNetsUnknownOnly(d.st, Tail(names), net_type)

\* parse_net_declaration, its for loop: each name is declared with the net
\* type and no line; the first failing declare ends the loop with its error
RECURSIVE DeclareNets(_, _, _)
DeclareNets(st, names, net_type) ==
    IF names = <<>> THEN [ok |-> TRUE, st |-> st, err |-> None]
    ELSE LET d == declare(st, Head(names), net_type, None, NoLine)
         IN  IF d.ok THEN DeclareNets(d.st, Tail(names), net_type) ELSE d

\* parse_net_declaration after the semicolon: the outcome of the for loop
NetDeclared(cur, node, declared) ==
    IF declared.ok THEN With(Ok(cur, node), declared.st)
    ELSE With(Raise(cur, declared.err), declared.st)

parse_net_declaration(toks, cur, st) ==
    ThenWith(OptionalRange(toks, cur + 1), st, LAMBDA range :
    ThenWith(ParseNames(toks, range.cur), st, LAMBDA names :
    ThenWith(expect(toks, names.cur, "SEMICOLON"), st, LAMBDA semi :
         NetDeclared(semi.cur,
                     NetDeclarationNode(Lower(toks[cur + 1].value), names.node, range.node),
                     DeclareNets(st, names.node, Lower(toks[cur + 1].value))))))

\* a plausible slip: the skip of an unknown token takes the next token too
parse_module_itemSkipTwo(toks, cur, st) ==
    CASE match(toks, cur, {"INPUT", "OUTPUT", "INOUT"}) -> parse_port_declaration(toks, cur, st)
      [] match(toks, cur, {"WIRE", "REG"})   -> parse_net_declaration(toks, cur, st)
      [] match(toks, cur, {"ASSIGN"})        -> With(parse_assign_statement(toks, cur), st)
      [] match(toks, cur, {"ALWAYS"})        -> With(parse_always_block(toks, cur), st)
      [] match(toks, cur, {"INITIAL"})       -> With(parse_initial_statement(toks, cur), st)
      [] match(toks, cur, {"IDENTIFIER"})    -> With(parse_module_instantiation(toks, cur), st)
      [] OTHER -> With(Ok(IF cur + 1 < Len(toks) THEN cur + 2 ELSE cur, NoNode), st)

\* parse_module_item: the node of the outcome is None when a token is skipped;
\* past the end of the tokens advance returns None and the cursor stays
parse_module_item(toks, cur, st) ==
    CASE match(toks, cur, {"INPUT", "OUTPUT", "INOUT"}) -> parse_port_declaration(toks, cur, st)
      [] match(toks, cur, {"WIRE", "REG"})   -> parse_net_declaration(toks, cur, st)
      [] match(toks, cur, {"ASSIGN"})        -> With(parse_assign_statement(toks, cur), st)
      [] match(toks, cur, {"ALWAYS"})        -> With(parse_always_block(toks, cur), st)
      [] match(toks, cur, {"INITIAL"})       -> With(parse_initial_statement(toks, cur), st)
      [] match(toks, cur, {"IDENTIFIER"})    -> With(parse_module_instantiation(toks, cur), st)
      [] OTHER -> With(Ok(IF cur < Len(toks) THEN cur + 1 ELSE cur, NoNode), st)

\* parse_module, its port list: the cursor is after the module name and st is
\* the table after enter_scope
ModulePorts(toks, cur, st) ==
    IF ~match(toks, cur, {"LPAREN"}) THEN With(Ok(cur, <<>>), st)
    ELSE Then(parse_port_list(toks, cur + 1, st), LAMBDA list :
         ThenWith(expect(toks, list.cur, "RPAREN"), list.st, LAMBDA close :
              With(Ok(close.cur, list.node), list.st)))

\* parse_module up to the module body: MODULE, the name, enter_scope, the
\* optional port list, the semicolon.  The node of the outcome is the pair of
\* the module name and the ports.
ParseModuleHeader(toks, cur, st) ==
    ThenWith(expect(toks, cur, "MODULE"), st, LAMBDA kw :
    ThenWith(expect(toks, kw.cur, "IDENTIFIER"), st, LAMBDA name :
    Then(ModulePorts(toks, name.cur, enter_scope(st, name.node.value)), LAMBDA plist :
    ThenWith(expect(toks, plist.cur, "SEMICOLON"), plist.st, LAMBDA semi :
         With(Ok(semi.cur, <<name.node.value, plist.node>>), plist.st)))))

-----------------------------------------------------------------------------
(* The inputs of the parser model: a source text of one header line, up to *)
(* MaxItems item lines and, optionally, an endmodule line.                 *)

MaxItems == 2

\* the first line of the source
HeaderLines ==
    <<
       \* 1: module top;
       <<"m","o","d","u","l","e"," ","t","o","p",";">>,
       \* 2: module m(a, b);
       <<"m","o","d","u","l","e"," ","m","(","a",","," ","b",")",";">>,
       \* 3: module m(output a, input b);
       <<"m","o","d","u","l","e"," ","m","(","o","u","t","p","u","t"," ","a",",",
          " ","i","n","p","u","t"," ","b",")",";">>,
       \* 4: module m(a;
       <<"m","o","d","u","l","e"," ","m","(","a",";">>,
       \* 5: module m(input wire [1:0] a, a);
       <<"m","o","d","u","l","e"," ","m","(","i","n","p","u","t"," ","w","i","r",
          "e"," ","[","1",":","0","]"," ","a",","," ","a",")",";">> >>

\* the lines of the module body; line 9 holds two tokens that
\* parse_module_item skips, lines 10 and 11 are malformed
ItemLines ==
    <<
       \* 1: input a;
       <<"i","n","p","u","t"," ","a",";">>,
       \* 2: output a, c;
       <<"o","u","t","p","u","t"," ","a",","," ","c",";">>,
       \* 3: wire x;
       <<"w","i","r","e"," ","x",";">>,
       \* 4: reg [3:0] x, y;
       <<"r","e","g"," ","[","3",":","0","]"," ","x",","," ","y",";">>,
       \* 5: assign y = a | b & c;
       <<"a","s","s","i","g","n"," ","y"," ","="," ","a"," ","|"," ","b"," ","&",
          " ","c",";">>,
       \* 6: always @(posedge a or b) if (a) x <= ~b; else x = 0;
       <<"a","l","w","a","y","s"," ","@","(","p","o","s","e","d","g","e"," ","a",
          " ","o","r"," ","b",")"," ","i","f"," ","(","a",")"," ","x"," ","<","=",
          " ","~","b",";"," ","e","l","s","e"," ","x"," ","="," ","0",";">>,
       \* 7: initial begin #5 x = 1; forever $stop(1, x); end
       <<"i","n","i","t","i","a","l"," ","b","e","g","i","n"," ","#","5"," ","x",
          " ","="," ","1",";"," ","f","o","r","e","v","e","r"," ","$","s","t","o",
          "p","(","1",","," ","x",")",";"," ","e","n","d">>,
       \* 8: u1 u2 (.p(a), .q(b[1:0]));
       <<"u","1"," ","u","2"," ","(",".","p","(","a",")",","," ",".","q","(","b",
          "[","1",":","0","]",")",")",";">>,
       \* 9: ) ;
       <<")"," ",";">>,
       \* 10: assign y = a
       <<"a","s","s","i","g","n"," ","y"," ","="," ","a">>,
       \* 11: initial begin x = 1;
       <<"i","n","i","t","i","a","l"," ","b","e","g","i","n"," ","x"," ","="," ",
          "1",";">> >>

EndmoduleLine == <<"e","n","d","m","o","d","u","l","e">>

-----------------------------------------------------------------------------
(* The lexer as a state machine: one step per iteration of the while loop  *)

\* the characters the model draws source texts from: one alphabet for
\* literals, strings, line comments, blanks and line breaks, one for words,
\* operators and block comments, one for words in both cases and tabs
Alphabets ==
    { {"b", "1", "'", "\"", "/", " ", "\n"},
      {"o", "r", "|", "<", "=", "/", "*"},
      {"o", "r", "O", "R", "|", "\t"} }

SeqsUpTo(S, n) == UNION {[1..k -> S] : k \in 0..n}

Sources == UNION {SeqsUpTo(A, MaxSourceLen) : A \in Alphabets}

cur_line == lines[line_num]

\* ErrorReporter.__init__: no error, no warning, no source code; nothing
\* has been reported
ReportIdle ==
    /\ reporter = [errors |-> <<>>, warnings |-> <<>>, source_code |-> <<>>]
    /\ report = None

\* no request is being handled
AppIdle ==
    /\ request = None
    /\ hpc = "idle"
    /\ app_result = None
    /\ fixed_code = None
    /\ fixes_applied = <<>>
    /\ fixed_result = None
    /\ calls = <<>>
    /\ response = None

\* a parser that has not been given tokens
ParseIdle ==
    /\ input = None
    /\ p_tokens = <<>>
    /\ current = 0
    /\ symbol_table = NewSymbolTable
    /\ module_name = None
    /\ ports = <<>>
    /\ items = <<>>
    /\ result = NoNode
    /\ error = None
    /\ ppc = "idle"

Init ==
    /\ source \in Sources
    /\ lines = SplitLines(source)
    /\ line_num = 1
    /\ pos = 0
    /\ column = 1
    /\ tokens = <<>>
    /\ pc = "lex"
    /\ ParseIdle
    /\ ReportIdle
    /\ AppIdle

\* a pattern matches at pos: the match is consumed, and emitted unless it is
\* white space or a comment
LexMatch ==
    /\ pc = "lex"
    /\ pos < Len(cur_line)
    /\ LET i == FirstMatch(cur_line, pos)
           s == ScanWith(i, cur_line, line_num, pos, column)
       IN  /\ i # 0
           /\ tokens' = tokens \o s.emit
           /\ pos' = pos + s.len
           /\ column' = column + s.len
    /\ UNCHANGED <<source, lines, line_num, pc, parsevars, reportvars, appvars>>

\* no pattern matches at pos: one UNKNOWN token for the character
LexUnknown ==
    /\ pc = "lex"
    /\ pos < Len(cur_line)
    /\ LET i == FirstMatch(cur_line, pos)
           s == ScanWith(i, cur_line, line_num, pos, column)
       IN  /\ i = 0
           /\ tokens' = tokens \o s.emit
           /\ pos' = pos + s.len
           /\ column' = column + s.len
    /\ UNCHANGED <<source, lines, line_num, pc, parsevars, reportvars, appvars>>

\* the end of a line that is not the last: the next line, column 1, pos 0
LexNextLine ==
    /\ pc = "lex"
    /\ pos >= Len(cur_line)
    /\ line_num < Len(lines)
    /\ line_num' = line_num + 1
    /\ pos' = 0
    /\ column' = 1
    /\ UNCHANGED <<source, lines, tokens, pc, parsevars, reportvars, appvars>>

\* the end of the last line: the EOF token is appended and tokenize returns
LexEOF ==
    /\ pc = "lex"
    /\ pos >= Len(cur_line)
    /\ line_num = Len(lines)
    /\ tokens' = Append(tokens, EofToken(lines))
    /\ pc' = "done"
    /\ UNCHANGED <<source, lines, line_num, pos, column, parsevars, reportvars, appvars>>

Next == LexMatch \/ LexUnknown \/ LexNextLine \/ LexEOF

Spec == Init /\ [][Next]_vars

\* the step machine computes the function Tokenize
LexAgrees == pc = "done" => tokens = Tokenize(source)

JoinLines(ls) ==
    LET RECURSIVE J(_)
        J(k) == IF k > Len(ls) THEN <<>>
                ELSE IF k = 1 THEN ls[1] \o J(2)
                ELSE <<"\n">> \o ls[k] \o J(k + 1)
    IN  J(1)

Inputs ==
    [header : DOMAIN HeaderLines,
     items  : SeqsUpTo(DOMAIN ItemLines, MaxItems),
     tail   : BOOLEAN]

\* the lines of the source of an input
InputLines(in) ==
    <<HeaderLines[in.header]>>
    \o [k \in DOMAIN in.items |-> ItemLines[in.items[k]]]
    \o (IF in.tail THEN <<EndmoduleLine>> ELSE <<>>)

-----------------------------------------------------------------------------
(* The parser as a state machine: parse(tokens) on a fresh VerilogParser,  *)
(* one step for the module header, one per iteration of the while loop of  *)
(* parse_module, one for the return.                                       *)

\* a source text has been read; the lexer and the parser are fresh
ParseInit ==
    /\ input \in Inputs
    /\ source = JoinLines(InputLines(input))
    /\ lines = SplitLines(source)
    /\ line_num = 1
    /\ pos = 0
    /\ column = 1
    /\ tokens = <<>>
    /\ pc = "lex"
    /\ p_tokens = <<>>
    /\ current = 0
    /\ symbol_table = NewSymbolTable
    /\ module_name = None
    /\ ports = <<>>
    /\ items = <<>>
    /\ result = NoNode
    /\ error = None
    /\ ppc = "start"
    /\ ReportIdle
    /\ AppIdle

\* tokens = lexer.tokenize(source_code), the whole call as one step
TokenizeCall ==
    /\ pc = "lex"
    /\ ppc \in {"start", "expr"}
    /\ tokens' = Tokenize(source)
    /\ line_num' = Len(lines)
    /\ pos' = Len(lines[Len(lines)])
    /\ column' = Len(lines[Len(lines)]) + 1
    /\ pc' = "done"
    /\ UNCHANGED <<source, lines, parsevars, reportvars, appvars>>

\* self.tokens = [t for t in tokens if t.type not in [NEWLINE]]
FilterNewline(toks) == SelectSeq(toks, LAMBDA t : t.type # "NEWLINE")

\* parse: the tokens are stored without NEWLINE tokens, the cursor is reset,
\* and parse_module runs up to the module body
ParseStart ==
    /\ pc = "done"
    /\ ppc = "start"
    /\ LET toks == FilterNewline(tokens)
           h    == ParseModuleHeader(toks, 0, symbol_table)
       IN  /\ p_tokens' = toks
           /\ current' = h.cur
           /\ symbol_table' = h.st
           /\ IF h.ok
              THEN /\ module_name' = h.node[1]
                   /\ ports' = h.node[2]
                   /\ ppc' = "body"
                   /\ error' = error
              ELSE /\ error' = h.err
                   /\ ppc' = "error"
                   /\ UNCHANGED <<module_name, ports>>
    /\ UNCHANGED <<input, items, result, lexvars, reportvars, appvars>>

\* a plausible slip: the None of a skipped token is kept as an item
AppendItemAlways(item_nodes, item) == Append(item_nodes, item)

\* if item: items.append(item)
AppendItem(item_nodes, item) ==
    IF item = NoNode THEN item_nodes ELSE Append(item_nodes, item)

\* one iteration of the while loop of parse_module: neither ENDMODULE nor EOF
\* is the current token, and parse_module_item runs
ParseItem ==
    /\ ppc = "body"
    /\ ~match(p_tokens, current, {"ENDMODULE"})
    /\ ~match(p_tokens, current, {"EOF"})
    /\ LET r == parse_module_item(p_tokens, current, symbol_table)
       IN  /\ current' = r.cur
           /\ symbol_table' = r.st
           /\ IF r.ok
              THEN /\ items' = AppendItem(items, r.node)
                   /\ UNCHANGED <<error, ppc>>
              ELSE /\ error' = r.err
                   /\ ppc' = "error"
                   /\ items' = items
    /\ UNCHANGED <<input, p_tokens, module_name, ports, result, lexvars, reportvars, appvars>>

\* the while loop of parse_module meets the EOF token
ParseBodyEof ==
    /\ ppc = "body"
    /\ ~match(p_tokens, current, {"ENDMODULE"})
    /\ match(p_tokens, current, {"EOF"})
    /\ error' = VerilogSyntaxError(<<"Expected 'endmodule'">>,
                                   get_current_line(p_tokens, current))
    /\ ppc' = "error"
    /\ UNCHANGED <<input, p_tokens, current, symbol_table, module_name, ports, items,
                   result, lexvars, reportvars, appvars>>

\* the while loop ends at ENDMODULE: expect(ENDMODULE), exit_scope, return
ParseEndModule ==
    /\ ppc = "body"
    /\ match(p_tokens, current, {"ENDMODULE"})
    /\ current' = current + 1
    /\ symbol_table' = exit_scope(symbol_table)
    /\ result' = ModuleNode(module_name, ports, items)
    /\ ppc' = "done"
    /\ UNCHANGED <<input, p_tokens, module_name, ports, items, error, lexvars, reportvars, appvars>>

ParseNext == TokenizeCall \/ ParseStart \/ ParseItem \/ ParseBodyEof \/ ParseEndModule

ParseSpec == ParseInit /\ [][ParseNext]_vars

-----------------------------------------------------------------------------
(* parse_expression on its own: the source is an expression of up to       *)
(* MaxOps binary operators between one-letter operands.                    *)

MaxOps == 3

BinaryOperators == {"|", "&", "^", "+", "-", "*", "/", "%"}

OperandNames == <<"a", "b", "c", "d", "e", "f", "g", "h">>

ExprInputs == SeqsUpTo(BinaryOperators, MaxOps)

\* the text of the expression with the operators ops: a ops[1] b ops[2] c ...
ExprText(ops) ==
    [k \in 1..(2 * Len(ops) + 1) |->
        IF k % 2 = 1 THEN OperandNames[(k + 1) \div 2] ELSE ops[k \div 2]]

ExprInit ==
    /\ input \in ExprInputs
    /\ source = ExprText(input)
    /\ lines = SplitLines(source)
    /\ line_num = 1
    /\ pos = 0
    /\ column = 1
    /\ tokens = <<>>
    /\ pc = "lex"
    /\ p_tokens = <<>>
    /\ current = 0
    /\ symbol_table = NewSymbolTable
    /\ module_name = None
    /\ ports = <<>>
    /\ items = <<>>
    /\ result = NoNode
    /\ error = None
    /\ ppc = "expr"
    /\ ReportIdle
    /\ AppIdle

\* a call of parse_expression with the cursor at the first token
ExprParse ==
    /\ pc = "done"
    /\ ppc = "expr"
    /\ LET toks == FilterNewline(tokens)
           r    == parse_expression(toks, 0)
       IN  /\ p_tokens' = toks
           /\ current' = r.cur
           /\ IF r.ok
              THEN /\ result' = r.node
                   /\ ppc' = "done"
                   /\ error' = error
              ELSE /\ error' = r.err
                   /\ ppc' = "error"
                   /\ result' = result
    /\ UNCHANGED <<input, symbol_table, module_name, ports, items, lexvars, reportvars, appvars>>

ExprNext == TokenizeCall \/ ExprParse

ExprSpec == ExprInit /\ [][ExprNext]_vars

-----------------------------------------------------------------------------
(* Properties of tokenize                                                  *)

LastToken == tokens[Len(tokens)]
NewlineCount == Cardinality({i \in DOMAIN source : source[i] = "\n"})
NonEof == {i \in DOMAIN tokens : tokens[i].type # "EOF"}

\* C2: tokenize has no failing step: at a position where no pattern matches,
\* the step appends exactly one UNKNOWN token whose text is that one character
\* (at the current line and column), advances pos and column by one, and stays
\* in the scan of the same line.
C2_UnknownStep ==
    [][ (pc = "lex" /\ pos < Len(cur_line) /\ FirstMatch(cur_line, pos) = 0)
        => /\ tokens' = Append(tokens, [type |-> "UNKNOWN",
                                        value |-> <<cur_line[pos + 1]>>,
                                        line |-> line_num, column |-> column])
           /\ pos' = pos + 1
           /\ column' = column + 1
           /\ line_num' = line_num
           /\ pc' = "lex" ]_vars

\* C2 witness: a finished scan that emitted an UNKNOWN token and went on to
\* emit another token of the same line after it
C2_Witness ==
    /\ pc = "done"
    /\ \E i \in DOMAIN tokens :
          /\ tokens[i].type = "UNKNOWN"
          /\ i + 1 \in NonEof
          /\ tokens[i + 1].line = tokens[i].line
          /\ tokens[i + 1].column = tokens[i].column + 1

\* C3: the returned sequence holds exactly one EOF token, the last one, at
\* column 1 and at line 1 + the number of newline characters of the source
\* (the number of pieces of the split); no EOF token exists before the return.
C3_SingleEof ==
    /\ pc = "lex" => NonEof = DOMAIN tokens
    /\ pc = "done" =>
          /\ Len(tokens) >= 1
          /\ NonEof = 1..(Len(tokens) - 1)
          /\ LastToken.type = "EOF"
          /\ LastToken.column = 1
          /\ LastToken.line = 1 + NewlineCount

\* C3 witness: a finished scan of a source of several lines, with tokens
C3_Witness ==
    pc = "done" /\ NewlineCount >= 2 /\ Len(tokens) >= 3 /\ LastToken.line = 3

\* C9: round trip: the text of every emitted non-EOF token, tokenized alone,
\* gives exactly one non-EOF token, of the same kind and text.
C9_RoundTrip ==
    pc = "done" =>
        \A i \in NonEof :
            LET again == Tokenize(tokens[i].value)
            IN  /\ Len(again) = 2
                /\ again[1].type = tokens[i].type
                /\ again[1].value = tokens[i].value
                /\ again[2].type = "EOF"

\* C9 witness: a finished scan that emitted a token of several characters
\* whose kind depends on its whole text (a sized literal or a string)
C9_Witness ==
    /\ pc = "done"
    /\ \E i \in NonEof : tokens[i].type \in {"BINARY", "STRING"}
                          /\ Len(tokens[i].value) >= 3
    /\ \E j \in NonEof : tokens[j].type = "UNKNOWN"

\* C10 as stated: the line of the EOF token is strictly greater than the line
\* of every other emitted token.
C10_EofAfterEveryToken ==
    pc = "done" => \A i \in NonEof : tokens[i].line < LastToken.line

\* C10 as amended: the EOF token is on the last source line (the line whose
\* number is the number of lines), so its line is greater than or equal to
\* the line of every other token, and equal to the line of the tokens of the
\* last line.
C10_EofOnLastLine ==
    pc = "done" =>
        /\ LastToken.line = Len(lines)
        /\ \A i \in NonEof : tokens[i].line <= LastToken.line
        /\ Len(TokenizeLine(lines[Len(lines)], Len(lines), 0, 1)) > 0
              => \E i \in NonEof : tokens[i].line = LastToken.line

\* C10 witness: a finished scan of several lines whose last line holds a token
C10_Witness ==
    /\ pc = "done"
    /\ Len(lines) >= 2
    /\ \E i \in NonEof : tokens[i].line = LastToken.line

-----------------------------------------------------------------------------
(* Properties of parse                                                     *)

\* the kind of the first token of a line of text
FirstKind(line) == Tokenize(line)[1].type

\* the node a module item that starts with this line's first token stands
\* for; "None" when parse_module_item recognizes no item there
ItemNodeOf(line) ==
    CASE FirstKind(line) \in {"INPUT", "OUTPUT", "INOUT"} -> "PortDeclarationNode"
      [] FirstKind(line) \in {"WIRE", "REG"}              -> "NetDeclarationNode"
      [] FirstKind(line) = "ASSIGN"                        -> "AssignNode"
      [] FirstKind(line) = "ALWAYS"                        -> "AlwaysNode"
      [] FirstKind(line) = "INITIAL"                       -> "InitialNode"
      [] FirstKind(line) = "IDENTIFIER"                    -> "ModuleInstantiationNode"
      [] OTHER                                             -> "None"

\* the lines of the inputs that are not well-formed
MalformedLines == {HeaderLines[4], ItemLines[10], ItemLines[11]}

\* the names a line declares as nets
NetNames(line) ==
    IF FirstKind(line) \in {"WIRE", "REG"}
    THEN {t.value : t \in {u \in Range(Tokenize(line)) : u.type = "IDENTIFIER"}}
    ELSE {}

\* the input is MODULE IDENTIFIER [ports] ; items ENDMODULE EOF with every
\* item well-formed, no net name declared twice
WellFormedInput ==
    /\ input.tail
    /\ \A l \in Range(InputLines(input)) : l \notin MalformedLines
    /\ \A i, j \in DOMAIN input.items :
          i < j => NetNames(ItemLines[input.items[i]])
                      \cap NetNames(ItemLines[input.items[j]]) = {}

\* the nodes of the recognized items of the input, in source order
ExpectedItems ==
    SelectSeq([k \in DOMAIN input.items |-> ItemNodeOf(ItemLines[input.items[k]])],
              LAMBDA n : n # "None")

\* C1: on a well-formed module (every item well-formed, which includes that
\* no net is declared twice) parse raises nothing, and what it returns is a
\* ModuleNode whose name is the text of the identifier after MODULE and whose
\* items are, in source order, one node per recognized module item; skipped
\* tokens add no item.
C1_ModuleNode ==
    /\ ppc = "error" => ~WellFormedInput
    /\ ppc = "done" =>
          /\ result.node = "ModuleNode"
          /\ result.name = p_tokens[2].value
          /\ [k \in DOMAIN result.items |-> result.items[k].node] = ExpectedItems

\* C1 witness: parse has returned a module with ports whose body held a line
\* of skipped tokens and a recognized item
C1_Witness ==
    /\ ppc = "done"
    /\ result.ports # <<>>
    /\ Len(input.items) = 2
    /\ Len(result.items) = 1
    /\ \E k \in DOMAIN input.items : ItemNodeOf(ItemLines[input.items[k]]) = "None"

\* the module scope: the scope parse_module entered
ModuleScope == symbol_table.scopes[2]

\* the symbols of the module scope with this name
SymbolsNamed(p) == {k \in DOMAIN ModuleScope.symbols : ModuleScope.symbols[k].name = p}

\* the names of the port list
PortListNames == {result.ports[k].name : k \in DOMAIN result.ports}

\* the port declarations of the body that name p
DeclarationsOf(p) ==
    {k \in DOMAIN result.items :
        /\ result.items[k].node = "PortDeclarationNode"
        /\ p \in Range(result.items[k].names)}

InputText == <<"i","n","p","u","t">>

\* the names the port list holds and an input declaration of the body names
MergedPorts ==
    {p \in PortListNames :
        \E k \in DeclarationsOf(p) : result.items[k].direction = InputText}

\* the first direction given for p: that of its first port-list entry when
\* the entry has one, otherwise that of its first declaration in the body
FirstDirection(p) ==
    LET entry == result.ports[Min({k \in DOMAIN result.ports : result.ports[k].name = p})]
    IN  IF entry.direction # None THEN entry.direction
        ELSE result.items[Min(DeclarationsOf(p))].direction

\* C4 as stated: whatever the port-list entry of p looks like, after input p;
\* the one symbol p of the module scope is a port of direction "input".
C4_MergedPortIsInput ==
    ppc = "done" =>
        \A p \in MergedPorts :
            /\ Cardinality(SymbolsNamed(p)) = 1
            /\ \A k \in SymbolsNamed(p) :
                  /\ ModuleScope.symbols[k].symbol_type = PortKind
                  /\ ModuleScope.symbols[k].data_type = InputText

\* C4 as amended: the module scope holds exactly one symbol p, a port, and its
\* direction is the first direction given for p: the direction keyword of its
\* first port-list entry if that entry has one, otherwise the direction of the
\* first port declaration of p in the body.
C4_MergedPortKeepsFirstDirection ==
    ppc = "done" =>
        \A p \in MergedPorts :
            /\ Cardinality(SymbolsNamed(p)) = 1
            /\ \A k \in SymbolsNamed(p) :
                  /\ ModuleScope.symbols[k].symbol_type = PortKind
                  /\ ModuleScope.symbols[k].data_type = FirstDirection(p)

\* C4 witness: parse has returned; a port named bare in the port list and
\* declared by input p; in the body is one symbol of direction "input"
C4_Witness ==
    /\ ppc = "done"
    /\ \E p \in MergedPorts :
          /\ \A k \in DOMAIN result.ports :
                result.ports[k].name = p => result.ports[k].direction = None
          /\ FirstDirection(p) = InputText
          /\ \E k \in SymbolsNamed(p) : ModuleScope.symbols[k].data_type = InputText

\* the positions (1-based) of the declarations wire n ; in the tokens
WireDeclarations(n) ==
    {i \in 1..(Len(p_tokens) - 2) :
        /\ p_tokens[i].type = "WIRE"
        /\ p_tokens[i + 1].type = "IDENTIFIER"
        /\ p_tokens[i + 1].value = n
        /\ p_tokens[i + 2].type = "SEMICOLON"}

\* C5 as stated: once parse has gone through a second declaration wire n; of
\* the module, it has raised a SemanticError, and the error message holds (as
\* its "previous declaration at line" part) the number of the line of the
\* first declaration of n.
C5_DuplicateWireNamesFirstLine ==
    \A i \in 1..(Len(p_tokens) - 2) :
        LET n     == p_tokens[i + 1].value
            first == Min(WireDeclarations(n))
        IN  (i \in WireDeclarations(n) /\ i # first /\ current >= i + 2)
            => /\ ppc = "error"
               /\ error.type = "VerilogSemanticError"
               /\ error.message[6] = ToString(p_tokens[first].line)

\* the token kinds the parser calls expect with
ExpectKinds ==
    {"MODULE", "IDENTIFIER", "LPAREN", "RPAREN", "SEMICOLON", "ENDMODULE",
     "LBRACKET", "COLON", "RBRACKET", "ASSIGN", "ASSIGN_OP", "ALWAYS", "INITIAL",
     "BEGIN", "END", "IF", "HASH", "NUMBER", "FOREVER", "DOT"}

\* C7: expect(kind) at a cursor whose token is of another kind, or past the
\* last token, raises a SyntaxError with the message "Expected <kind>, found
\* <kind of the current token>" ("EOF" past the last token) and leaves the
\* cursor where it was; a parse that ended with such an error has its cursor
\* on the token the message names; and for module m(a; the message is
\* "Expected RPAREN, found SEMICOLON".
C7_ExpectMismatch ==
    /\ \A cur \in {current, Len(p_tokens)} : \A kind \in ExpectKinds :
          ~match(p_tokens, cur, {kind}) =>
              LET r == expect(p_tokens, cur, kind)
              IN  /\ ~r.ok
                  /\ r.cur = cur
                  /\ r.err.type = "VerilogSyntaxError"
                  /\ r.err.message =
                        <<"Expected ", kind, ", found ",
                          IF cur < Len(p_tokens) THEN p_tokens[cur + 1].type ELSE "EOF">>
    /\ (ppc = "error" /\ Len(error.message) = 4 /\ error.message[1] = "Expected ")
          => /\ error.type = "VerilogSyntaxError"
             /\ current < Len(p_tokens)
             /\ error.message[4] = p_tokens[current + 1].type
             /\ error.message[2] # p_tokens[current + 1].type
    /\ (ppc = "error" /\ HeaderLines[input.header] = HeaderLines[4])
          => error.message = <<"Expected ", "RPAREN", ", found ", "SEMICOLON">>

\* C7 witness: the parse of module m(a; has ended with the error, the cursor
\* still on the semicolon
C7_Witness ==
    /\ ppc = "error"
    /\ error.message = <<"Expected ", "RPAREN", ", found ", "SEMICOLON">>
    /\ p_tokens[current + 1].type = "SEMICOLON"
    /\ p_tokens[current].type = "IDENTIFIER"

\* C8 as stated: a SyntaxError raised by parse carries the line and the column
\* of the token the cursor is on when the mismatch is detected.
C8_SyntaxErrorPosition ==
    (ppc = "error" /\ error.type = "VerilogSyntaxError")
        => /\ error.line = peek(p_tokens, current).line
           /\ error.column = peek(p_tokens, current).column

-----------------------------------------------------------------------------
(* Properties of parse_expression                                          *)

\* the binding strength of a binary operator, as the claim orders them
Strength(op) ==
    CASE op = "|"             -> 1
      [] op = "&"             -> 2
      [] op = "^"             -> 3
      [] op \in {"+", "-"}    -> 4
      [] op \in {"*", "/", "%"} -> 5

\* the reference parser: the tree of operands lo..hi of the expression with
\* the operators ops splits at the last operator of the weakest strength
RECURSIVE RefTree(_, _, _)
RefTree(ops, lo, hi) ==
    IF lo = hi
    THEN IdentifierNode(<<OperandNames[lo]>>)
    ELSE LET weakest == Min({Strength(ops[k]) : k \in lo..(hi - 1)})
             split   == CHOOSE k \in lo..(hi - 1) :
                            /\ Strength(ops[k]) = weakest
                            /\ \A j \in (k + 1)..(hi - 1) : Strength(ops[j]) # weakest
         IN  BinaryOpNode(RefTree(ops, lo, split), <<ops[split]>>,
                          RefTree(ops, split + 1, hi))

\* C6: parse_expression consumes the whole expression and returns the tree of
\* the reference parser (strength | < & < ^ < + - < * / %, equal strength
\* grouping to the left); a | b & c is BinaryOp(a, |, BinaryOp(b, &, c)) and
\* a - b - c is BinaryOp(BinaryOp(a, -, b), -, c).
C6_PrecedenceTree ==
    /\ ppc # "error"
    /\ ppc = "done" =>
          /\ result = RefTree(input, 1, Len(input) + 1)
          /\ current = Len(p_tokens) - 1
          /\ input = <<"|", "&">> =>
                result = BinaryOpNode(IdentifierNode(<<"a">>), <<"|">>,
                             BinaryOpNode(IdentifierNode(<<"b">>), <<"&">>,
                                          IdentifierNode(<<"c">>)))
          /\ input = <<"-", "-">> =>
                result = BinaryOpNode(
                             BinaryOpNode(IdentifierNode(<<"a">>), <<"-">>,
                                          IdentifierNode(<<"b">>)),
                             <<"-">>, IdentifierNode(<<"c">>))

\* C6 witness: parse_expression has returned the tree of a | b & c - d, whose
\* root is the OR and whose right operand is the AND of b and c - d
C6_Witness ==
    /\ ppc = "done"
    /\ input = <<"|", "&", "-">>
    /\ result.node = "BinaryOpNode"
    /\ result.operator = <<"|">>
    /\ result.right.operator = <<"&">>
    /\ result.right.right.operator = <<"-">>

-----------------------------------------------------------------------------
(* Several parse calls on one VerilogParser.  The caller tokenizes a       *)
(* source before each call and may filter the EOF token out of the tokens; *)
(* the parser keeps the symbol table it was constructed with.              *)

MaxCalls == 2

\* the sources of these calls: the empty text, and a header line (well-formed
\* or not) with at most one body line, with and without endmodule
CallInputs == [header : {1, 4}, items : SeqsUpTo({3, 9, 11}, 1), tail : BOOLEAN]

CallSources == {<<>>} \cup {JoinLines(InputLines(in)) : in \in CallInputs}

\* a source text has been read; the lexer and the parser are fresh
CallsInit ==
    /\ source \in CallSources
    /\ lines = SplitLines(source)
    /\ line_num = 1
    /\ pos = 0
    /\ column = 1
    /\ tokens = <<>>
    /\ pc = "lex"
    /\ input = None
    /\ p_tokens = <<>>
    /\ current = 0
    /\ symbol_table = NewSymbolTable
    /\ module_name = None
    /\ ports = <<>>
    /\ items = <<>>
    /\ result = NoNode
    /\ error = None
    /\ ppc = "start"
    /\ ReportIdle
    /\ AppIdle

\* a caller that filters the EOF token out of the tokens it passes to parse
DropEof ==
    /\ pc = "done"
    /\ ppc = "start"
    /\ \E i \in DOMAIN tokens : tokens[i].type = "EOF"
    /\ tokens' = SelectSeq(tokens, LAMBDA t : t.type # "EOF")
    /\ UNCHANGED <<source, lines, line_num, pos, column, pc, parsevars, reportvars, appvars>>

\* after a call has returned or raised, the caller reads another source for a
\* further call on the same parser: the locals of parse_module are fresh, the
\* fields of the parser are as the last call left them
ParseAgain ==
    /\ ppc \in {"done", "error"}
    /\ Len(symbol_table.scopes) <= MaxCalls
    /\ source' \in CallSources
    /\ lines' = SplitLines(source')
    /\ line_num' = 1
    /\ pos' = 0
    /\ column' = 1
    /\ tokens' = <<>>
    /\ pc' = "lex"
    /\ module_name' = None
    /\ ports' = <<>>
    /\ items' = <<>>
    /\ result' = NoNode
    /\ error' = None
    /\ ppc' = "start"
    /\ UNCHANGED <<input, p_tokens, current, symbol_table, reportvars, appvars>>

CallsNext ==
    \/ TokenizeCall
    \/ DropEof
    \/ ParseStart
    \/ ParseItem
    \/ ParseBodyEof
    \/ ParseEndModule
    \/ ParseAgain

CallsSpec == CallsInit /\ [][CallsNext]_vars

\* the item loop of parse_module is about to run parse_module_item
InItemLoop ==
    /\ ppc = "body"
    /\ ~match(p_tokens, current, {"ENDMODULE"})
    /\ ~match(p_tokens, current, {"EOF"})

\* C11: a parse call terminates on every finite token sequence, with or
\* without an EOF token: an iteration of the item loop of parse_module raises
\* an error or consumes a token (so the loop cannot run for ever), a call that
\* returned has a ModuleNode, and a call that raised has none.
C11_ParseTerminates ==
    /\ InItemLoop =>
          LET r == parse_module_item(p_tokens, current, symbol_table)
          IN  ~r.ok \/ r.cur > current
    /\ ppc = "done" => result.node = "ModuleNode"
    /\ ppc = "error" => result = NoNode

-----------------------------------------------------------------------------
(* C12: the end of the input inside the module body or inside a block      *)

\* the cursor positions of the BEGIN tokens that no END token follows
UnclosedBegins ==
    {c \in 0..(Len(p_tokens) - 1) :
        /\ p_tokens[c + 1].type = "BEGIN"
        /\ \A j \in (c + 2)..Len(p_tokens) : p_tokens[j].type # "END"}

\* C12: when the item loop of parse_module finds the EOF token (no ENDMODULE
\* seen), parse raises a VerilogSyntaxError and returns no ModuleNode; a
\* begin-block that no END closes before the EOF token raises a
\* VerilogSyntaxError; and parse returns a ModuleNode only after an ENDMODULE
\* token, with every block before it closed.
C12_EofIsFatal ==
    /\ [](\A c \in UnclosedBegins :
             LET r == parse_block_statement(p_tokens, c)
             IN  ~r.ok /\ r.err.type = "VerilogSyntaxError")
    /\ [](ppc = "done" =>
             /\ p_tokens[current].type = "ENDMODULE"
             /\ result.node = "ModuleNode"
             /\ \A c \in UnclosedBegins : c >= current)
    /\ [][(ppc = "body" /\ match(p_tokens, current, {"EOF"})) =>
             /\ ppc' = "error"
             /\ error'.type = "VerilogSyntaxError"
             /\ result' = NoNode]_vars

\* C12 witness: parse has raised "Expected 'end'" with the cursor on the EOF
\* token, inside a block that was never closed
C12_Witness ==
    /\ ppc = "error"
    /\ match(p_tokens, current, {"EOF"})
    /\ UnclosedBegins # {}
    /\ error.message = <<"Expected 'end'">>
    /\ result = NoNode

-----------------------------------------------------------------------------
(* A SymbolTable on its own: any sequence of enter_scope, exit_scope,      *)
(* declare and lookup calls.  result holds what the last call returned.    *)

MaxScopes == 3

MaxSymbols == 3

ScopeNames == {<<"m">>, <<"f">>}

SymbolNames == {<<"x">>, <<"y">>}

SymbolTypes == {<<"w","i","r","e">>, <<"r","e","g">>}

\* the number of symbols of all scopes
RECURSIVE SymbolCount(_, _)
SymbolCount(st, k) ==
    IF k > Len(st.scopes) THEN 0
    ELSE Len(st.scopes[k].symbols) + SymbolCount(st, k + 1)

SymInit ==
    /\ source = <<>>
    /\ lines = <<<<>>>>
    /\ line_num = 1
    /\ pos = 0
    /\ column = 1
    /\ tokens = <<>>
    /\ pc = "done"
    /\ input = None
    /\ p_tokens = <<>>
    /\ current = 0
    /\ symbol_table = NewSymbolTable
    /\ module_name = None
    /\ ports = <<>>
    /\ items = <<>>
    /\ result = [op |-> "init"]
    /\ error = None
    /\ ppc = "sym"
    /\ ReportIdle
    /\ AppIdle

SymEnterScope ==
    /\ ppc = "sym"
    /\ Len(symbol_table.scopes) < MaxScopes
    /\ \E name \in ScopeNames :
          /\ symbol_table' = enter_scope(symbol_table, name)
          /\ result' = [op |-> "enter_scope", scope |-> symbol_table'.current_scope]
    /\ UNCHANGED <<input, p_tokens, current, module_name, ports, items, error, ppc,
                   lexvars, reportvars, appvars>>

SymExitScope ==
    /\ ppc = "sym"
    /\ symbol_table' = exit_scope(symbol_table)
    /\ result' = [op |-> "exit_scope", scope |-> ExitedScope(symbol_table)]
    /\ UNCHANGED <<input, p_tokens, current, module_name, ports, items, error, ppc,
                   lexvars, reportvars, appvars>>

SymDeclare ==
    /\ ppc = "sym"
    /\ SymbolCount(symbol_table, 1) < MaxSymbols
    /\ \E name \in SymbolNames, type \in SymbolTypes :
          LET d == declare(symbol_table, name, type, None, NoLine)
          IN  /\ symbol_table' = d.st
              /\ result' = [op |-> "declare", name |-> name, type |-> type, ok |-> d.ok]
    /\ UNCHANGED <<input, p_tokens, current, module_name, ports, items, error, ppc,
                   lexvars, reportvars, appvars>>

SymLookup ==
    /\ ppc = "sym"
    /\ \E name \in SymbolNames :
          result' = [op |-> "lookup", name |-> name, found |-> lookup(symbol_table, name)]
    /\ UNCHANGED <<input, p_tokens, current, symbol_table, module_name, ports, items,
                   error, ppc, lexvars, reportvars, appvars>>

SymNext == SymEnterScope \/ SymExitScope \/ SymDeclare \/ SymLookup

SymSpec == SymInit /\ [][SymNext]_vars

-----------------------------------------------------------------------------
(* C13: the scope stack                                                    *)

\* C13: the scope stack is never empty, its bottom element is the global
\* scope, current_scope is its top element, and the parent of every stacked
\* scope is the element directly beneath it; exit_scope with only the global
\* scope on the stack returns None and changes nothing.
C13_ScopeStack ==
    LET st == symbol_table
        n  == Len(st.scope_stack)
    IN  /\ n >= 1
        /\ st.scope_stack[1] = 1
        /\ st.scopes[1].name = GlobalName
        /\ st.scopes[1].parent = 0
        /\ st.current_scope = st.scope_stack[n]
        /\ \A k \in 2..n : st.scopes[st.scope_stack[k]].parent = st.scope_stack[k - 1]
        /\ n = 1 => exit_scope(st) = st /\ ExitedScope(st) = 0
        /\ (result.op = "exit_scope" /\ result.scope = 0) => n = 1

\* C13 witness: exit_scope has just been called on the global scope alone,
\* after scopes were entered and left
C13_Witness ==
    /\ result.op = "exit_scope"
    /\ result.scope = 0
    /\ Len(symbol_table.scope_stack) = 1
    /\ Len(symbol_table.scopes) = MaxScopes

-----------------------------------------------------------------------------
(* C14: lookup and declare                                                 *)

\* the positions in the scope stack of the scopes that declare name
DeclaringLevels(st, name) ==
    {k \in DOMAIN st.scope_stack : HasSymbol(st.scopes[st.scope_stack[k]], name)}

\* the innermost active scope that declares name, 0 when none does
InnermostDeclaring(st, name) ==
    IF DeclaringLevels(st, name) = {} THEN 0
    ELSE st.scope_stack[CHOOSE k \in DeclaringLevels(st, name) :
                            \A j \in DeclaringLevels(st, name) : j <= k]

\* C14: lookup(name) returns the symbol of the innermost active scope that
\* declares name, or None when no active scope declares it; declare changes
\* the current scope only, and declaring a name that the current scope does
\* not hold succeeds, also when an outer scope holds the name, and the new
\* symbol is then the one lookup returns.
C14_LookupAndDeclare ==
    LET st == symbol_table
    IN  /\ \A name \in SymbolNames :
              /\ lookup(st, name).scope = InnermostDeclaring(st, name)
              /\ lookup(st, name).scope # 0 =>
                    SymbolAt(st, lookup(st, name)).name = name
        /\ result.op = "lookup" =>
              result.found.scope = InnermostDeclaring(st, result.name)
        /\ \A name \in SymbolNames, type \in SymbolTypes :
              LET d == declare(st, name, type, None, NoLine)
              IN  /\ \A k \in DOMAIN st.scopes :
                        k # st.current_scope => d.st.scopes[k] = st.scopes[k]
                  /\ d.st.scope_stack = st.scope_stack
                  /\ d.ok = ~HasSymbol(st.scopes[st.current_scope], name)
                  /\ d.ok => /\ lookup(d.st, name).scope = st.current_scope
                             /\ SymbolAt(d.st, lookup(d.st, name)).symbol_type = type

\* C14 witness: a name declared as a wire in an outer active scope has been
\* declared as a reg in the current scope, and the lookup that followed
\* returned the inner symbol
C14_Witness ==
    LET st == symbol_table
    IN  /\ result.op = "lookup"
        /\ Cardinality(DeclaringLevels(st, result.name)) >= 2
        /\ result.found.scope = st.current_scope
        /\ SymbolAt(st, result.found).symbol_type = <<"r","e","g">>
        /\ \E k \in DOMAIN st.scope_stack :
              /\ st.scope_stack[k] # st.current_scope
              /\ HasSymbol(st.scopes[st.scope_stack[k]], result.name)
              /\ SymbolAt(st, [scope |-> st.scope_stack[k],
                               entry |-> ScopeLookup(st.scopes[st.scope_stack[k]],
                                                     result.name)]).symbol_type
                    = <<"w","i","r","e">>

-----------------------------------------------------------------------------
(* errors.py: VerilogCompilerError.format_error, format_error_context,     *)
(* create_detailed_error_report and ErrorReporter.  Texts are sequences of *)
(* characters; a text of several lines holds "\n" between the lines.       *)

\* str(n) for a natural number
RECURSIVE Str(_)
Str(n) ==
    IF n < 10 THEN <<<<"0","1","2","3","4","5","6","7","8","9">>[n + 1]>>
    ELSE Str(n \div 10) \o <<<<"0","1","2","3","4","5","6","7","8","9">>[(n % 10) + 1]>>

\* c * n
Repeat(c, n) == [k \in 1..n |-> c]

\* f"{text:>{width}}": text right-aligned in a field of that width
PadLeft(text, width) ==
    IF Len(text) >= width THEN text ELSE Repeat(" ", width - Len(text)) \o text

\* a plausible slip: the column is printed whenever the line is
format_errorAlwaysColumn(message, l_num, col) ==
    IF l_num > 0
    THEN <<"L","i","n","e"," ">> \o Str(l_num) \o <<","," ","C","o","l","u","m","n"," ">> \o Str(col) \o <<":"," ">> \o message
    ELSE message

\* VerilogCompilerError.format_error
format_error(message, l_num, col) ==
    IF l_num > 0
    THEN IF col > 0
         THEN <<"L","i","n","e"," ">> \o Str(l_num) \o <<","," ","C","o","l","u","m","n"," ">> \o Str(col) \o <<":"," ">> \o message
         ELSE <<"L","i","n","e"," ">> \o Str(l_num) \o <<":"," ">> \o message
    ELSE message

\* VerilogCompilerError.__init__ and its subclasses constructed without their
\* optional fourth argument (as the parser constructs them): type is the name
\* of the class, args the text given to Exception.__init__
CompilerError(type, message, l_num, col) ==
    [type |-> type, message |-> message, line |-> l_num, column |-> col,
     args |-> format_error(message, l_num, col)]

\* the default of the parameter context_lines
ContextLines == 2

\* the lines of format_error_context for the 0-based indices i..(end_idx - 1)
RECURSIVE ContextRows(_, _, _, _, _)
ContextRows(source_lines, i, end_idx, error_line_idx, col) ==
    IF i >= end_idx THEN <<>>
    ELSE LET prefix == PadLeft(Str(i + 1), Len(Str(end_idx))) \o <<":", " ">>
             rows   == IF i = error_line_idx
                       THEN <<(<<">", " ">> \o prefix \o source_lines[i + 1])>>
                            \o (IF col > 0
                                THEN <<(Repeat(" ", Len(prefix) + 1)
                                        \o Repeat(" ", col - 1) \o <<"^">>)>>
                                ELSE <<>>)
                       ELSE <<(<<" ", " ">> \o prefix \o source_lines[i + 1])>>
         IN  rows \o ContextRows(source_lines, i + 1, end_idx, error_line_idx, col)

\* format_error_context(source_lines, line_num, column, context_lines)
format_error_context(source_lines, l_num, col, context_lines) ==
    IF source_lines = <<>> \/ l_num < 1 THEN <<>>
    ELSE LET error_line_idx == l_num - 1
             start_idx == IF error_line_idx - context_lines > 0
                          THEN error_line_idx - context_lines ELSE 0
             end_idx   == IF Len(source_lines) < error_line_idx + context_lines + 1
                          THEN Len(source_lines)
                          ELSE error_line_idx + context_lines + 1
         IN  JoinLines(ContextRows(source_lines, start_idx, end_idx, error_line_idx, col))

\* the class name as text
TypeName(type) ==
    CASE type = "VerilogCompilerError" -> <<"V","e","r","i","l","o","g","C","o","m","p","i","l","e","r","E","r","r","o","r">>
      [] type = "VerilogSyntaxError"   -> <<"V","e","r","i","l","o","g","S","y","n","t","a","x","E","r","r","o","r">>
      [] type = "VerilogSemanticError" -> <<"V","e","r","i","l","o","g","S","e","m","a","n","t","i","c","E","r","r","o","r">>

\* create_detailed_error_report: for an error with a positive line the call
\* report.append(..., end="") raises TypeError (list.append takes no keyword
\* argument), so the source context, which also needs a positive line, is
\* never added; the error carries no token, char, identifier or filename
create_detailed_error_report(e, source_code) ==
    IF e.line > 0
    THEN [ok |-> FALSE, raised |-> "TypeError", text |-> <<>>]
    ELSE [ok |-> TRUE, raised |-> "",
          text |-> JoinLines(<<<<"E","R","R","O","R",":"," ">> \o TypeName(e.type), <<"M","e","s","s","a","g","e",":"," ">> \o e.message>>)]

\* generate_report, the error section: "Error i:", the detailed report, ""
RECURSIVE ErrorRows(_, _, _)
ErrorRows(errors, i, source_code) ==
    IF i > Len(errors) THEN [ok |-> TRUE, raised |-> "", rows |-> <<>>]
    ELSE LET d    == create_detailed_error_report(errors[i], source_code)
             rest == ErrorRows(errors, i + 1, source_code)
         IN  IF ~d.ok THEN [ok |-> FALSE, raised |-> d.raised, rows |-> <<>>]
             ELSE IF ~rest.ok THEN rest
             ELSE [ok |-> TRUE, raised |-> "",
                   rows |-> <<<<"E","r","r","o","r"," ">> \o Str(i) \o <<":">>, d.text, <<>>>> \o rest.rows]

\* generate_report, the warning section
WarningRows(warnings, detailed) ==
    (IF detailed THEN <<<<"W","A","R","N","I","N","G","S",":">>, Repeat("-", 30)>> ELSE <<>>)
    \o [i \in DOMAIN warnings |->
           IF detailed
           THEN <<"W","a","r","n","i","n","g"," ">> \o Str(i) \o <<":", " ">>
                \o format_error(warnings[i].message, warnings[i].line, warnings[i].column)
           ELSE format_error(warnings[i].message, warnings[i].line, warnings[i].column)]

\* ErrorReporter.generate_report(detailed): the text returned, or what raised
generate_report(rep, detailed) ==
    IF rep.errors = <<>> /\ rep.warnings = <<>>
    THEN [ok |-> TRUE, raised |-> "", text |-> <<"C","o","m","p","i","l","a","t","i","o","n"," ","c","o","m","p","l","e","t","e","d"," ","s","u","c","c","e","s","s","f","u","l","l","y"," ","w","i","t","h"," ","n","o"," ","e","r","r","o","r","s"," ","o","r"," ","w","a","r","n","i","n","g","s",".">>]
    ELSE LET head == <<<<"C","O","M","P","I","L","A","T","I","O","N"," ","R","E","P","O","R","T">>, Repeat("=", 50),
                       <<"E","r","r","o","r","s",":"," ">> \o Str(Len(rep.errors)),
                       <<"W","a","r","n","i","n","g","s",":"," ">> \o Str(Len(rep.warnings)), <<>>>>
             errs == IF detailed /\ rep.errors # <<>>
                     THEN ErrorRows(rep.errors, 1, rep.source_code)
                     ELSE [ok |-> TRUE, raised |-> "", rows |-> <<>>]
             warn == IF rep.warnings # <<>>
                     THEN WarningRows(rep.warnings, detailed) ELSE <<>>
         IN  IF ~errs.ok THEN [ok |-> FALSE, raised |-> errs.raised, text |-> <<>>]
             ELSE [ok |-> TRUE, raised |-> "",
                   text |-> JoinLines(head
                                      \o (IF detailed /\ rep.errors # <<>>
                                          THEN <<<<"E","R","R","O","R","S",":">>, Repeat("-", 30)>> ELSE <<>>)
                                      \o errs.rows \o warn)]

-----------------------------------------------------------------------------
(* format_error_context called on its own: input holds the arguments,      *)
(* report the text returned.                                               *)

MaxLines == 10

MaxColumn == 3

LineTexts == {<<"a","b","c">>, <<"\t","x">>, <<>>}

FmtInputs ==
    [source_lines : {[k \in 1..n |-> text] : n \in 0..MaxLines, text \in LineTexts},
     line_num     : 0..(MaxLines + 1),
     column       : 0..MaxColumn]

\* the variables of the lexer and of the parser, unused
NoParse ==
    /\ source = <<>>
    /\ lines = <<<<>>>>
    /\ line_num = 1
    /\ pos = 0
    /\ column = 1
    /\ tokens = <<>>
    /\ pc = "done"
    /\ p_tokens = <<>>
    /\ current = 0
    /\ symbol_table = NewSymbolTable
    /\ module_name = None
    /\ ports = <<>>
    /\ items = <<>>
    /\ result = NoNode
    /\ error = None

FmtInit ==
    /\ NoParse
    /\ input \in FmtInputs
    /\ reporter = [errors |-> <<>>, warnings |-> <<>>, source_code |-> <<>>]
    /\ report = None
    /\ ppc = "fmt"
    /\ AppIdle

\* the call format_error_context(source_lines, line_num, column)
FormatContext ==
    /\ ppc = "fmt"
    /\ report' = format_error_context(input.source_lines, input.line_num, input.column,
                                      ContextLines)
    /\ ppc' = "formatted"
    /\ UNCHANGED <<input, p_tokens, current, symbol_table, module_name, ports, items,
                   result, error, reporter, lexvars, appvars>>

FmtNext == FormatContext

FmtSpec == FmtInit /\ [][FmtNext]_vars

-----------------------------------------------------------------------------
(* C15: the caret of format_error_context                                  *)

\* the lines of the text returned
ReportLines == SplitLines(report)

\* the error line of the text: the one line that starts with ">"
ErrorRow == CHOOSE k \in DOMAIN ReportLines :
                ReportLines[k] # <<>> /\ ReportLines[k][1] = ">"

\* the 1-based offset of the caret on the line after the error line
CaretOffset == CHOOSE j \in DOMAIN ReportLines[ErrorRow + 1] :
                   ReportLines[ErrorRow + 1][j] = "^"

\* the 1-based offset, on the error line, of column c of the source line,
\* which is printed at the end of the error line
ColumnOffset(c) ==
    Len(ReportLines[ErrorRow]) - Len(input.source_lines[input.line_num]) + c

\* C15: for an error at line L of the source (1 <= L <= number of lines) and
\* column C >= 1, the caret of the pointer line is at the same offset as the
\* character at column C of the source line as printed on the error line.
C15_CaretUnderColumn ==
    (/\ ppc = "formatted"
     /\ input.line_num >= 1
     /\ input.line_num <= Len(input.source_lines)
     /\ input.column >= 1)
    => CaretOffset = ColumnOffset(input.column)

-----------------------------------------------------------------------------
(* An ErrorReporter: any sequence of set_source_code, add_error,           *)
(* add_warning and generate_report calls.  report holds the outcome of the *)
(* last generate_report call while the reporter is as that call saw it.    *)

MaxErrors == 2

MaxWarnings == 1

MaxPosition == 2

\* the errors given to add_error: a message, a line and a column
ReportedErrors ==
    {CompilerError(type, <<"m">>, l, c) :
        type \in {"VerilogSyntaxError", "VerilogSemanticError"},
        l \in 0..MaxPosition, c \in 0..MaxPosition}

ReportedSources == {<<"a","b","\n","c","d">>}

NoReport == [op |-> "none"]

ReportInit ==
    /\ NoParse
    /\ input = None
    /\ reporter = [errors |-> <<>>, warnings |-> <<>>, source_code |-> <<>>]
    /\ report = NoReport
    /\ ppc = "report"
    /\ AppIdle

\* ErrorReporter.set_source_code
SetSourceCode ==
    /\ ppc = "report"
    /\ \E s \in ReportedSources : reporter' = [reporter EXCEPT !.source_code = s]
    /\ reporter' # reporter
    /\ report' = NoReport
    /\ UNCHANGED <<parsevars, lexvars, appvars>>

\* ErrorReporter.add_error
AddError ==
    /\ ppc = "report"
    /\ Len(reporter.errors) < MaxErrors
    /\ \E e \in ReportedErrors :
          reporter' = [reporter EXCEPT !.errors = Append(@, e)]
    /\ report' = NoReport
    /\ UNCHANGED <<parsevars, lexvars, appvars>>

\* ErrorReporter.add_warning(message, line, column)
AddWarning ==
    /\ ppc = "report"
    /\ Len(reporter.warnings) < MaxWarnings
    /\ \E l \in 0..MaxPosition, c \in 0..MaxPosition :
          reporter' = [reporter EXCEPT !.warnings =
                          Append(@, CompilerError("VerilogCompilerError",
                                                  <<"W","A","R","N","I","N","G",":"," ">> \o <<"w">>, l, c))]
    /\ report' = NoReport
    /\ UNCHANGED <<parsevars, lexvars, appvars>>

\* ErrorReporter.generate_report(detailed)
GenerateReport ==
    /\ ppc = "report"
    /\ \E detailed \in BOOLEAN :
          LET r == generate_report(reporter, detailed)
          IN  report' = [op |-> "generate_report", detailed |-> detailed,
                         ok |-> r.ok, raised |-> r.raised, text |-> r.text]
    /\ UNCHANGED <<reporter, parsevars, lexvars, appvars>>

ReportNext == SetSourceCode \/ AddError \/ AddWarning \/ GenerateReport

ReportSpec == ReportInit /\ [][ReportNext]_vars

-----------------------------------------------------------------------------
(* C16: the detailed report                                                *)

\* needle occurs in text
Occurs(needle, text) ==
    \E i \in 0..(Len(text) - Len(needle)) : SubSeq(text, i + 1, i + Len(needle)) = needle

\* C16: for a reporter whose source code is set and which holds one or more
\* errors, all with a positive line, generate_report(detailed=True) returns
\* a text that holds, for each error, the source lines around its line with
\* the caret line for its column; it does not fail.
C16_DetailedReportHasContext ==
    (/\ report.op = "generate_report"
     /\ report.detailed
     /\ reporter.source_code # <<>>
     /\ reporter.errors # <<>>
     /\ \A i \in DOMAIN reporter.errors : reporter.errors[i].line > 0)
    => /\ report.ok
       /\ \A i \in DOMAIN reporter.errors :
             Occurs(format_error_context(SplitLines(reporter.source_code),
                                         reporter.errors[i].line,
                                         reporter.errors[i].column, ContextLines),
                    report.text)

-----------------------------------------------------------------------------
(* C17: the rendered form of an error                                      *)

\* the rendered form the claim gives for a message, a line and a column >= 0
RenderedForm(e) ==
    CASE e.line > 0 /\ e.column > 0 ->
             <<"L","i","n","e"," ">> \o Str(e.line) \o <<","," ","C","o","l","u","m","n"," ">> \o Str(e.column) \o <<":"," ">> \o e.message
      [] e.line > 0 /\ e.column = 0 -> <<"L","i","n","e"," ">> \o Str(e.line) \o <<":"," ">> \o e.message
      [] e.line = 0 -> e.message

\* the errors and warnings the reporter holds
Accumulated ==
    {reporter.errors[i] : i \in DOMAIN reporter.errors}
    \cup {reporter.warnings[i] : i \in DOMAIN reporter.warnings}

\* C17: the rendered form of a compiler error is "Line L, Column C: message"
\* when line > 0 and column > 0, "Line L: message" when line > 0 and
\* column = 0, and the bare message when line = 0, whatever the column is;
\* it is the text the error was constructed with, and the line a report that
\* is not detailed prints for a warning.
C17_RenderedForm ==
    /\ \A e \in Accumulated :
          /\ e.args = RenderedForm(e)
          /\ format_error(e.message, e.line, e.column) = RenderedForm(e)
    /\ (report.op = "generate_report" /\ ~report.detailed /\ reporter.warnings # <<>>) =>
          /\ report.ok
          /\ LET rows == SplitLines(report.text)
             IN  rows[Len(rows)] = RenderedForm(reporter.warnings[Len(reporter.warnings)])

\* C17 witness: a report that is not detailed has been generated for a
\* reporter that holds an error with a line and no column, an error with a
\* column and no line, and a warning with both
C17_Witness ==
    /\ report.op = "generate_report"
    /\ ~report.detailed
    /\ \E i \in DOMAIN reporter.errors :
          reporter.errors[i].line > 0 /\ reporter.errors[i].column = 0
    /\ \E i \in DOMAIN reporter.errors :
          reporter.errors[i].line = 0 /\ reporter.errors[i].column > 0
    /\ \E i \in DOMAIN reporter.warnings :
          /\ reporter.warnings[i].line > 0
          /\ reporter.warnings[i].column > 0
          /\ Occurs(<<"L","i","n","e"," ">> \o Str(reporter.warnings[i].line) \o <<","," ","C","o","l","u","m","n"," ">>
                    \o Str(reporter.warnings[i].column) \o <<":"," ">>, report.text)

-----------------------------------------------------------------------------
(* C18: the depth of the scope stack of a parser                           *)

\* C18: during and after any sequence of parse calls on one parser, calls
\* that return and calls that raise alike, the scope stack of its symbol
\* table holds at most two scopes: the global scope and one module scope.
C18_DepthAtMostTwo == Len(symbol_table.scope_stack) <= 2

-----------------------------------------------------------------------------
(* C19: what tokenize emits, and where                                     *)

-----------------------------------------------------------------------------
(* C20: keywords among the identifier matches                              *)

\* the spellings of the word or, in every mix of cases
OrSpellings == {<<"o", "r">>, <<"O", "r">>, <<"o", "R">>, <<"O", "R">>}

\* C20: a token whose text starts as an identifier does is emitted with the
\* kind of the keyword table's entry for its lower-cased text when there is
\* one, and as IDENTIFIER otherwise, its text being the text as written in the
\* source; the word or, in any case, is SENS_OR and the character | is OR,
\* never the other way round.
C20_KeywordKinds ==
    \A i \in DOMAIN tokens :
       LET t == tokens[i] IN
       /\ (t.value # <<>> /\ t.value[1] \in IdentStart) =>
             /\ \A k \in DOMAIN keywords :
                   keywords[k][1] = Lower(t.value) => t.type = keywords[k][2]
             /\ (\A k \in DOMAIN keywords : keywords[k][1] # Lower(t.value))
                   => t.type = "IDENTIFIER"
             /\ t.value = SubSeq(lines[t.line], t.column,
                                 t.column + Len(t.value) - 1)
       /\ t.value \in OrSpellings <=> t.type = "SENS_OR"
       /\ t.value = <<"|">> <=> t.type = "OR"

\* C20 witness: a finished scan that emitted OR in capitals as SENS_OR, the
\* character | as OR, and a word that is no keyword as IDENTIFIER
C20_Witness ==
    /\ pc = "done"
    /\ \E i \in DOMAIN tokens :
          tokens[i].value = <<"O", "R">> /\ tokens[i].type = "SENS_OR"
    /\ \E i \in DOMAIN tokens :
          tokens[i].value = <<"|">> /\ tokens[i].type = "OR"
    /\ \E i \in DOMAIN tokens :
          tokens[i].value = <<"R">> /\ tokens[i].type = "IDENTIFIER"

-----------------------------------------------------------------------------
(* C21: tokens that start no module item                                   *)

\* the kinds of token that parse_module and parse_module_item act on
ItemStarts ==
    {"INPUT", "OUTPUT", "INOUT", "WIRE", "REG", "ASSIGN", "ALWAYS", "INITIAL",
     "IDENTIFIER", "ENDMODULE", "EOF"}

\* C21: when the token at a module-item position is none of INPUT, OUTPUT,
\* INOUT, WIRE, REG, ASSIGN, ALWAYS, INITIAL, IDENTIFIER, ENDMODULE or EOF, the
\* step of parse consumes exactly that token, appends no item, raises no
\* error, stays in the item loop and leaves the symbol table as it was.
C21_SkipUnknown ==
    [][(/\ ppc = "body"
        /\ current < Len(p_tokens)
        /\ p_tokens[current + 1].type \notin ItemStarts)
       => /\ current' = current + 1
          /\ items' = items
          /\ ppc' = "body"
          /\ error' = error
          /\ result' = result
          /\ symbol_table' = symbol_table]_vars

\* C21 witness: after "module top;" the closing parenthesis of the line ") ;"
\* has been skipped and the loop is at the semicolon, with no item
C21_Witness ==
    /\ ppc = "body"
    /\ input.header = 1
    /\ input.items # <<>>
    /\ input.items[1] = 9
    /\ current = 4
    /\ p_tokens[4].type = "RPAREN"
    /\ p_tokens[5].type = "SEMICOLON"
    /\ items = <<>>
    /\ error = None

-----------------------------------------------------------------------------
(* Declarations: parse(tokens) on a fresh VerilogParser over a module of   *)
(* port-list entries, port declarations and net declarations, in any order *)

MaxDecls == 2

\* the header lines with a complete port list, or none
DeclHeaders == {1, 2, 3, 5}

\* the declaration lines of the body: lines 1 to 4 of ItemLines, then
DeclLines ==
    SubSeq(ItemLines, 1, 4) \o
    <<
       \* 5: input x;
       <<"i","n","p","u","t"," ","x",";">>,
       \* 6: wire a;
       <<"w","i","r","e"," ","a",";">>,
       \* 7: reg c, z;
       <<"r","e","g"," ","c",","," ","z",";">> >>

DeclInputs ==
    [header : DeclHeaders,
     decls  : SeqsUpTo(DOMAIN DeclLines, MaxDecls),
     tail   : BOOLEAN]

\* the lines of the source of an input
DeclSource(in) ==
    <<HeaderLines[in.header]>>
    \o [k \in DOMAIN in.decls |-> DeclLines[in.decls[k]]]
    \o (IF in.tail THEN <<EndmoduleLine>> ELSE <<>>)

\* a source text has been read; the lexer and the parser are fresh
DeclInit ==
    /\ input \in DeclInputs
    /\ source = JoinLines(DeclSource(input))
    /\ lines = SplitLines(source)
    /\ line_num = 1
    /\ pos = 0
    /\ column = 1
    /\ tokens = <<>>
    /\ pc = "lex"
    /\ p_tokens = <<>>
    /\ current = 0
    /\ symbol_table = NewSymbolTable
    /\ module_name = None
    /\ ports = <<>>
    /\ items = <<>>
    /\ result = NoNode
    /\ error = None
    /\ ppc = "start"
    /\ ReportIdle
    /\ AppIdle

DeclSpec == DeclInit /\ [][ParseNext]_vars

-----------------------------------------------------------------------------
(* C22: the entries of the port list                                       *)

\* the index of the token that closes the port list; 3 when the module name
\* is followed by no port list
PortListEnd ==
    IF p_tokens[3].type # "LPAREN" THEN 3
    ELSE Min({k \in DOMAIN p_tokens : p_tokens[k].type = "RPAREN"})

\* the names the port list gives, in order: its IDENTIFIER tokens
EntryNames ==
    LET ids == SelectSeq(SubSeq(p_tokens, 4, PortListEnd),
                         LAMBDA t : t.type = "IDENTIFIER")
    IN  [k \in DOMAIN ids |-> ids[k].value]

\* the first entry of the port list with the name of entry k
FirstEntry(k) == Min({j \in DOMAIN ports : ports[j].name = ports[k].name})

\* what parse_module holds after a port list
PortListRegistered ==
    /\ [k \in DOMAIN ports |-> ports[k].name] = EntryNames
    /\ \A k \in DOMAIN ports :
          /\ ports[k].node = "PortNode"
          /\ Cardinality(SymbolsNamed(ports[k].name)) = 1
          /\ \A s \in SymbolsNamed(ports[k].name) :
                ModuleScope.symbols[s] =
                   [Symbol(ports[k].name, PortKind, ports[FirstEntry(k)].direction, NoLine)
                       EXCEPT !.scope = module_name]
    /\ \A s \in DOMAIN ModuleScope.symbols :
          \E k \in DOMAIN ports : ports[k].name = ModuleScope.symbols[s].name
    /\ symbol_table.scopes[1].symbols = <<>>
    /\ error = None

\* C22: when parse_module has read the module header, every entry of the port
\* list has its PortNode; a name met for the first time is a symbol of kind
\* "port" of the module scope with the direction of that entry (None when the
\* entry has no direction keyword); an entry whose name is already a symbol
\* leaves that symbol as it is, and no error is raised.
C22_PortListEntries ==
    [][(pc = "done" /\ ppc = "start" /\ ppc' = "body") => PortListRegistered']_vars

\* C22 witness: the header "module m(input wire [1:0] a, a);" has been read:
\* two PortNodes named a, one symbol a, a port of direction input
C22_Witness ==
    /\ ppc = "body"
    /\ input.header = 5
    /\ input.decls = <<>>
    /\ Len(ports) = 2
    /\ ports[1].name = ports[2].name
    /\ ports[1].direction = InputText
    /\ ports[2].direction = None
    /\ Len(ModuleScope.symbols) = 1
    /\ ModuleScope.symbols[1].data_type = InputText

-----------------------------------------------------------------------------
(* C23: port declarations in the module body                               *)

\* the item loop is at a port declaration
AtPortDeclaration ==
    /\ ppc = "body"
    /\ match(p_tokens, current, {"INPUT", "OUTPUT", "INOUT"})

\* the direction keyword at the cursor, as the parser keeps it
DirectionAtCursor == Lower(p_tokens[current + 1].value)

\* the names of the declaration at the cursor: the IDENTIFIER tokens up to
\* its semicolon
NamesAtCursor ==
    LET semi == Min({k \in DOMAIN p_tokens :
                        k > current /\ p_tokens[k].type \in {"SEMICOLON", "EOF"}})
    IN  {p_tokens[k].value : k \in {j \in current + 1 .. semi :
                                       p_tokens[j].type = "IDENTIFIER"}}

\* C23: a step of parse over a port declaration raises no error and adds the
\* declaration to the items; each of its names that was no symbol is then one
\* symbol of kind "port" with the direction of the declaration; each of its
\* names that was a port without direction is the same symbol with that
\* direction set; and no name has a second symbol.
C23_PortDeclaration ==
    [][AtPortDeclaration =>
         /\ ppc' = "body"
         /\ error' = error
         /\ Len(items') = Len(items) + 1
         /\ items'[Len(items')].node = "PortDeclarationNode"
         /\ Range(items'[Len(items')].names) = NamesAtCursor
         /\ Len(ModuleScope.symbols') =
               Len(ModuleScope.symbols)
               + Cardinality({n \in NamesAtCursor : SymbolsNamed(n) = {}})
         /\ \A n \in NamesAtCursor :
               /\ Cardinality(SymbolsNamed(n)') = 1
               /\ SymbolsNamed(n) = {} =>
                     \A s \in SymbolsNamed(n)' :
                        ModuleScope.symbols'[s] =
                           [Symbol(n, PortKind, DirectionAtCursor, NoLine)
                               EXCEPT !.scope = module_name]
               /\ \A s \in SymbolsNamed(n) :
                     (/\ ModuleScope.symbols[s].symbol_type = PortKind
                      /\ ModuleScope.symbols[s].data_type = None)
                     => ModuleScope.symbols'[s] =
                           [ModuleScope.symbols[s] EXCEPT !.data_type = DirectionAtCursor]
      ]_vars

\* C23 witness: after "module m(a, b);" the declaration "output a, c;" has
\* been parsed: a has its direction set in place, c is a new port
C23_Witness ==
    /\ ppc = "body"
    /\ input.header = 2
    /\ input.decls # <<>>
    /\ input.decls[1] = 2
    /\ Len(items) = 1
    /\ Len(ModuleScope.symbols) = 3
    /\ ModuleScope.symbols[1].name = <<"a">>
    /\ ModuleScope.symbols[1].data_type = <<"o","u","t","p","u","t">>
    /\ ModuleScope.symbols[2].data_type = None
    /\ ModuleScope.symbols[3].name = <<"c">>
    /\ ModuleScope.symbols[3].symbol_type = PortKind
    /\ ModuleScope.symbols[3].data_type = <<"o","u","t","p","u","t">>

-----------------------------------------------------------------------------
(* C24: net declarations in the module body                                *)

\* the item loop is at a net declaration
AtNetDeclaration ==
    /\ ppc = "body"
    /\ match(p_tokens, current, {"WIRE", "REG"})

\* the names of the declaration at the cursor that are symbols already
KnownAtCursor == {n \in NamesAtCursor : SymbolsNamed(n) # {}}

\* C24: a step of parse over a wire or reg declaration that names a symbol of
\* the module scope, of whatever kind, raises a VerilogSemanticError; a step
\* over one that names no symbol yet leaves each of its names a symbol whose
\* kind is the net keyword.
C24_NetDeclaration ==
    [][AtNetDeclaration =>
         /\ KnownAtCursor # {} =>
               /\ ppc' = "error"
               /\ error'.type = "VerilogSemanticError"
               /\ result' = NoNode
         /\ KnownAtCursor = {} =>
               \A n \in NamesAtCursor :
                  /\ Cardinality(SymbolsNamed(n)') = 1
                  /\ \A s \in SymbolsNamed(n)' :
                        ModuleScope.symbols'[s] =
                           [Symbol(n, DirectionAtCursor, None, NoLine)
                               EXCEPT !.scope = module_name]
      ]_vars

\* C24 witness: after "module m(a, b);" the declaration "wire x;" has made x a
\* wire and the declaration "wire a;" of the port a has raised the error
C24_Witness ==
    /\ ppc = "error"
    /\ error.type = "VerilogSemanticError"
    /\ input.header = 2
    /\ input.decls = <<3, 6>>
    /\ Len(ModuleScope.symbols) = 3
    /\ ModuleScope.symbols[1].name = <<"a">>
    /\ ModuleScope.symbols[1].symbol_type = PortKind
    /\ ModuleScope.symbols[3].name = <<"x">>
    /\ ModuleScope.symbols[3].symbol_type = <<"w","i","r","e">>

-----------------------------------------------------------------------------
(* C25: the scope of the module                                            *)

\* the names the returned module declares: those of its port list and of the
\* port and net declarations of its body
DeclaredNames ==
    {result.ports[k].name : k \in DOMAIN result.ports}
    \cup UNION {Range(result.items[k].names) :
                   k \in {j \in DOMAIN result.items :
                             result.items[j].node \in {"PortDeclarationNode",
                                                       "NetDeclarationNode"}}}

\* C25: a parse call on a fresh parser pushes one scope, named after the
\* module and child of the global scope, when it enters the module; when it
\* returns a ModuleNode the scope is popped again: the current scope is the
\* global scope, the global scope holds no symbol, and every name the module
\* declares is a symbol of the module scope.
C25_ModuleScope ==
    /\ ppc = "body" =>
          /\ Len(symbol_table.scopes) = 2
          /\ symbol_table.scope_stack = <<1, 2>>
          /\ symbol_table.current_scope = 2
          /\ ModuleScope.name = module_name
          /\ ModuleScope.parent = 1
    /\ ppc = "done" =>
          /\ result.node = "ModuleNode"
          /\ Len(symbol_table.scopes) = 2
          /\ symbol_table.scopes[1].name = GlobalName
          /\ symbol_table.scopes[1].parent = 0
          /\ symbol_table.scopes[1].symbols = <<>>
          /\ ModuleScope.name = result.name
          /\ ModuleScope.parent = 1
          /\ symbol_table.scope_stack = <<1>>
          /\ symbol_table.current_scope = 1
          /\ {ModuleScope.symbols[s].name : s \in DOMAIN ModuleScope.symbols}
                = DeclaredNames
          /\ \A s \in DOMAIN ModuleScope.symbols :
                ModuleScope.symbols[s].scope = result.name

\* C25 witness: parse has returned a module whose port list and body
\* declared three symbols or more
C25_Witness ==
    /\ ppc = "done"
    /\ result.node = "ModuleNode"
    /\ result.ports # <<>>
    /\ Len(ModuleScope.symbols) >= 3
    /\ symbol_table.current_scope = 1

-----------------------------------------------------------------------------
(* C26: directions and kinds of symbols                                    *)

\* the values of a direction keyword as the parser keeps them
Directions ==
    {<<"i","n","p","u","t">>, <<"o","u","t","p","u","t">>, <<"i","n","o","u","t">>}

\* every symbol of the table, as the pair of its scope and entry
AllSymbols ==
    UNION {{<<s, k>> : k \in DOMAIN symbol_table.scopes[s].symbols} :
              s \in DOMAIN symbol_table.scopes}

\* no step changes the kind of a symbol that exists
KindsKept ==
    [][\A y \in AllSymbols :
          symbol_table'.scopes[y[1]].symbols[y[2]].symbol_type =
             symbol_table.scopes[y[1]].symbols[y[2]].symbol_type]_vars

\* C26: in every state reached while parsing port-list entries, port
\* declarations and net declarations, a symbol has a direction (a data_type of
\* input, output or inout) only if its kind is "port": a symbol of kind "wire"
\* or "reg" has none.
C26_DirectionOnlyOnPorts ==
    \A y \in AllSymbols :
       LET sym == symbol_table.scopes[y[1]].symbols[y[2]]
       IN  sym.data_type \in Directions => sym.symbol_type = PortKind

-----------------------------------------------------------------------------
(* C27: a declare that raises                                              *)

\* the scope declare works on
CurrentScope == symbol_table.scopes[symbol_table.current_scope]

\* C27: a declare of a name the current scope already holds raises, and leaves
\* the symbol table exactly as it was: the earlier symbol with its kind,
\* direction, scope and line, the symbols of every scope, the scope stack and
\* the current scope.
C27_FailedDeclareChangesNothing ==
    [][(/\ result'.op = "declare"
        /\ result' # result
        /\ HasSymbol(CurrentScope, result'.name))
       => /\ ~result'.ok
          /\ symbol_table' = symbol_table]_vars

\* C27 witness: inside a nested scope a declare of a name the scope holds,
\* with the other kind, has raised; the symbol has the kind it had
C27_Witness ==
    /\ result.op = "declare"
    /\ ~result.ok
    /\ Len(symbol_table.scope_stack) >= 2
    /\ HasSymbol(CurrentScope, result.name)
    /\ CurrentScope.symbols[ScopeLookup(CurrentScope, result.name)].symbol_type
          # result.type

-----------------------------------------------------------------------------
(* syntax_fixer.py: the line-level fixer.  A text is a sequence of         *)
(* characters; the fixes applied so far are carried from method to method. *)

\* \w of the regular expressions
WordChars == Letters \cup Digits \cup {"_"}

\* str.lstrip(), str.rstrip() and str.strip() on one line
LStrip(s) == SubSeq(s, RunLen(s, 0, SpaceChars) + 1, Len(s))

RECURSIVE RStrip(_)
RStrip(s) ==
    IF s # <<>> /\ s[Len(s)] \in SpaceChars THEN RStrip(SubSeq(s, 1, Len(s) - 1)) ELSE s

Strip(s) == LStrip(RStrip(s))

\* str.startswith(p), str.endswith(p), p in s, str.count(c)
StartsWith(s, p) == LitLen(s, 0, p) = Len(p)
EndsWith(s, p) == Len(s) >= Len(p) /\ LitLen(s, Len(s) - Len(p), p) = Len(p)
Contains(s, p) == \E i \in 0 .. Len(s) - Len(p) : LitLen(s, i, p) = Len(p)
Count(s, c) == Cardinality({i \in DOMAIN s : s[i] = c})

\* str.replace(old, new): every occurrence of old, from the left, none
\* overlapping another
RECURSIVE Replace(_, _, _)
Replace(s, old, new) ==
    IF Len(s) < Len(old) THEN s
    ELSE IF LitLen(s, 0, old) = Len(old)
    THEN new \o Replace(SubSeq(s, Len(old) + 1, Len(s)), old, new)
    ELSE <<s[1]>> \o Replace(Tail(s), old, new)

\* the index after the characters of S that follow index p
After(s, p, S) == p + RunLen(s, p, S)

\* SyntaxFix, as _record_fix builds it; the description, a text fixed by the
\* kind of fix, is left out
SyntaxFix(line_number, original, fixed, fix_type) ==
    [line_number |-> line_number, original_line |-> Strip(original),
     fixed_line |-> Strip(fixed), fix_type |-> fix_type]

\* what a _fix_ method leaves: the line it returns and self.fixes_applied
Fixed(line, fixes) == [line |-> line, fixes |-> fixes]

_record_fix(fixes, line_number, original, fixed, fix_type) ==
    Append(fixes, SyntaxFix(line_number, original, fixed, fix_type))

AssignWord == <<"a","s","s","i","g","n">>

_fix_missing_semicolon_assign(line, line_number, original_line, fixes) ==
    IF StartsWith(Strip(line), AssignWord) /\ ~EndsWith(Strip(line), <<";">>)
    THEN Fixed(RStrip(line) \o <<";">>,
               _record_fix(fixes, line_number, original_line, RStrip(line) \o <<";">>,
                           "missing_semicolon"))
    ELSE Fixed(line, fixes)

\* the keywords of decl_pattern
DeclKeywords ==
    {<<"i","n","p","u","t">>, <<"o","u","t","p","u","t">>, <<"w","i","r","e">>, <<"r","e","g">>,
     <<"i","n","t","e","g","e","r">>, <<"p","a","r","a","m","e","t","e","r">>}

\* re.match(decl_pattern, s) on a stripped line: a keyword, white space, and
\* one character or more, none of them a semicolon, up to the end
DeclMatch(s) ==
    \E kw \in DeclKeywords :
       /\ StartsWith(s, kw)
       /\ RunLen(s, Len(kw), SpaceChars) >= 1
       /\ Len(s) > Len(kw) + 1
       /\ Count(s, ";") = 0

_fix_missing_semicolon_declaration(line, line_number, original_line, fixes) ==
    IF /\ DeclMatch(Strip(line))
       /\ ~EndsWith(RStrip(line), <<";">>)
       /\ ~EndsWith(RStrip(line), <<",">>)
    THEN Fixed(RStrip(line) \o <<";">>,
               _record_fix(fixes, line_number, original_line, RStrip(line) \o <<";">>,
                           "missing_semicolon"))
    ELSE Fixed(line, fixes)

\* ')' * n
Repeated(c, n) == [k \in 1 .. n |-> c]

_fix_parentheses(line, line_number, original_line, fixes) ==
    IF /\ Count(line, "(") > Count(line, ")")
       /\ (Contains(line, AssignWord) \/ Contains(line, <<"=">>))
    THEN LET fixed_line == RStrip(line) \o Repeated(")", Count(line, "(") - Count(line, ")"))
         IN  Fixed(fixed_line,
                   _record_fix(fixes, line_number, original_line, fixed_line,
                               "missing_parentheses"))
    ELSE Fixed(line, fixes)

\* re.match(port_pattern, s) on a stripped line: input or output, white
\* space, a word, white space, a word, optional white space, a semicolon;
\* the outcome holds the two words
PortMatchFrom(s, kw) ==
    LET p1 == After(s, Len(kw), SpaceChars)
        p2 == After(s, p1, WordChars)
        p3 == After(s, p2, SpaceChars)
        p4 == After(s, p3, WordChars)
        p5 == After(s, p4, SpaceChars)
    IN  [ok    |-> /\ StartsWith(s, kw)
                   /\ p1 > Len(kw) /\ p2 > p1 /\ p3 > p2 /\ p4 > p3
                   /\ p5 < Len(s)
                   /\ s[p5 + 1] = ";",
         port1 |-> SubSeq(s, p1 + 1, p2),
         port2 |-> SubSeq(s, p3 + 1, p4)]

PortMatch(s) ==
    IF PortMatchFrom(s, <<"i","n","p","u","t">>).ok
    THEN PortMatchFrom(s, <<"i","n","p","u","t">>)
    ELSE PortMatchFrom(s, <<"o","u","t","p","u","t">>)

_fix_missing_commas(line, line_number, original_line, fixes) ==
    LET m == PortMatch(Strip(line))
        fixed_line == Replace(line, m.port1 \o <<" ">> \o m.port2,
                              m.port1 \o <<",", " ">> \o m.port2)
    IN  IF m.ok
        THEN Fixed(fixed_line,
                   _record_fix(fixes, line_number, original_line, fixed_line,
                               "missing_comma"))
        ELSE Fixed(line, fixes)

ModuleWord == <<"m","o","d","u","l","e">>

\* re.match(module_pattern, s) on a stripped line: module, white space, a
\* word, optional white space, characters other than parentheses and
\* semicolons, a semicolon; the outcome holds the word and those characters
ModuleMatch(s) ==
    LET p1 == After(s, Len(ModuleWord), SpaceChars)
        p2 == After(s, p1, WordChars)
        p3 == After(s, p2, SpaceChars)
        p4 == After(s, p3, {s[k] : k \in DOMAIN s} \ {"(", ")", ";"})
    IN  [ok |-> /\ StartsWith(s, ModuleWord)
                /\ p1 > Len(ModuleWord) /\ p2 > p1
                /\ p4 < Len(s)
                /\ s[p4 + 1] = ";",
         module_name |-> SubSeq(s, p1 + 1, p2),
         port_part   |-> SubSeq(s, p3 + 1, p4)]

_fix_module_declaration(line, line_number, original_line, fixes) ==
    LET m == ModuleMatch(Strip(line))
        fixed_line == ModuleWord \o <<" ">> \o m.module_name \o <<"(">>
                      \o Strip(m.port_part) \o <<")", ";">>
    IN  IF m.ok /\ Strip(m.port_part) # <<>> /\ ~StartsWith(Strip(m.port_part), <<"(">>)
        THEN Fixed(Replace(line, Strip(line), fixed_line),
                   _record_fix(fixes, line_number, original_line, fixed_line,
                               "module_syntax"))
        ELSE Fixed(line, fixes)

_fix_missing_endmodule(line, line_number, original_line, fixes) == Fixed(line, fixes)

\* line = self._fix_...(line, ...): the next fix works on the line and the
\* fixes the one before left
AndFix(f, next(_, _)) == next(f.line, f.fixes)

\* _fix_line: the six fixes in order, each on the line the one before left
_fix_line(line, line_number, fixes) ==
    AndFix(_fix_missing_semicolon_assign(line, line_number, line, fixes), LAMBDA l1, x1 :
    AndFix(_fix_missing_semicolon_declaration(l1, line_number, line, x1), LAMBDA l2, x2 :
    AndFix(_fix_parentheses(l2, line_number, line, x2), LAMBDA l3, x3 :
    AndFix(_fix_missing_commas(l3, line_number, line, x3), LAMBDA l4, x4 :
    AndFix(_fix_module_declaration(l4, line_number, line, x4), LAMBDA l5, x5 :
           _fix_missing_endmodule(l5, line_number, line, x5))))))

\* the for loop of fix_code from line i on
RECURSIVE FixLines(_, _, _, _)
FixLines(ls, i, fixed_lines, fixes) ==
    IF i > Len(ls) THEN [code |-> JoinLines(fixed_lines), fixes |-> fixes]
    ELSE AndFix(_fix_line(ls[i], i, fixes), LAMBDA l, x :
                FixLines(ls, i + 1, Append(fixed_lines, l), x))

\* fix_code: the fixed code and the fixes applied
fix_code(code) == FixLines(SplitLines(code), 1, <<>>, <<>>)

-----------------------------------------------------------------------------
(* The fixer as a state machine: fix_code on a text, then fix_code on the  *)
(* text it returned.  A text is made of up to MaxPieces pieces.            *)

MaxPieces == 4

\* the pieces texts are made of: assignments and parentheses, declarations
\* and port names, module headers
FixPieces ==
    { {<<"a","s","s","i","g","n">>, <<" ">>, <<"y">>, <<"=">>, <<"(">>, <<")">>, <<";">>, <<"\n">>},
      {<<"i","n","p","u","t"," ","a">>, <<"w","i","r","e"," ","a">>, <<" ">>, <<"\t">>, <<"b">>, <<";">>, <<",">>, <<"\n">>},
      {<<"m","o","d","u","l","e"," ","m">>, <<" ">>, <<"a">>, <<",">>, <<";">>, <<"(">>, <<")">>} }

RECURSIVE Flatten(_)
Flatten(pieces) == IF pieces = <<>> THEN <<>> ELSE Head(pieces) \o Flatten(Tail(pieces))

FixSources == {Flatten(p) : p \in UNION {SeqsUpTo(P, MaxPieces) : P \in FixPieces}}

\* a fresh VerilogSyntaxFixer and the code it is given
FixInit ==
    /\ source \in FixSources
    /\ lines = SplitLines(source)
    /\ line_num = 1
    /\ pos = 0
    /\ column = 1
    /\ tokens = <<>>
    /\ pc = "done"
    /\ input = None
    /\ p_tokens = <<>>
    /\ current = 0
    /\ symbol_table = NewSymbolTable
    /\ module_name = None
    /\ ports = <<>>
    /\ items = <<>>
    /\ result = [op |-> "none"]
    /\ error = None
    /\ ppc = "fix"
    /\ ReportIdle
    /\ AppIdle

\* a call of fix_code: the code given, the code and the fixes returned
FixCall(given, r) == [op |-> "fix_code", given |-> given, code |-> r.code, fixes |-> r.fixes]

\* fixed_code, fixes_applied = fixer.fix_code(code)
FixCode ==
    /\ ppc = "fix"
    /\ result' = FixCall(source, fix_code(source))
    /\ ppc' = "fixed"
    /\ UNCHANGED <<input, p_tokens, current, symbol_table, module_name, ports, items,
                   error, lexvars, reportvars, appvars>>

\* fix_code on the code the first call returned
FixCodeAgain ==
    /\ ppc = "fixed"
    /\ result' = FixCall(result.code, fix_code(result.code))
    /\ ppc' = "refixed"
    /\ UNCHANGED <<input, p_tokens, current, symbol_table, module_name, ports, items,
                   error, lexvars, reportvars, appvars>>

FixNext == FixCode \/ FixCodeAgain

FixSpec == FixInit /\ [][FixNext]_vars

-----------------------------------------------------------------------------
(* C29: the fixes recorded and the lines changed                           *)

\* the lines fix_code was given and the lines it returned
GivenLines == SplitLines(result.given)
ReturnedLines == SplitLines(result.code)

\* the numbers of the lines a fix is recorded for, and of the lines changed
FixedLineNumbers == {result.fixes[k].line_number : k \in DOMAIN result.fixes}
ChangedLineNumbers == {i \in DOMAIN GivenLines : ReturnedLines[i] # GivenLines[i]}

\* C29: fix_code returns a text that differs from the text it was given if
\* and only if it returns one fix or more; every fix is recorded for a line
\* whose text was changed, and every line whose text was changed has a fix.
C29_FixesAreChanges ==
    result.op = "fix_code" =>
        /\ Len(ReturnedLines) = Len(GivenLines)
        /\ result.code # result.given <=> result.fixes # <<>>
        /\ FixedLineNumbers = ChangedLineNumbers

-----------------------------------------------------------------------------
(* C30: fix_code on its own output                                         *)

\* C30: fix_code applied to the text a first fix_code call returned returns
\* that text unchanged and records no fix.
C30_FixCodeIdempotent ==
    ppc = "refixed" =>
        /\ result.code = result.given
        /\ result.fixes = <<>>

-----------------------------------------------------------------------------
(* app.py: the /compile request handler compile_verilog and the function   *)
(* compile_verilog_code it calls.  A dict is a record whose domain is the  *)
(* set of its keys.  The handler is a sequence of steps; a call of         *)
(* compile_verilog_code runs the lexer and the parser above on a fresh     *)
(* VerilogLexer and a fresh VerilogParser.  The code generator is a        *)
(* collaborator whose call either returns or raises; generated_code,       *)
(* statistics and ir_components, which hold what it returned, the          *)
(* description of a fix and fixes_summary, a rendering of the fixes, are   *)
(* left out of the dicts.  jsonify(result) is the response body.           *)

MaxRequestItems == 2

\* the header lines and the item lines the code of a request is made of
RequestHeaders == {1, 4}
RequestItems == {3, 10}

\* the code of a request: a header line, item lines and, optionally, an
\* endmodule line; or a text of white space only
RequestCodes ==
    {JoinLines(InputLines(in)) :
        in \in [header : RequestHeaders,
                items  : SeqsUpTo(RequestItems, MaxRequestItems),
                tail   : BOOLEAN]}
    \cup {<<>>, <<" ", "\n">>}

\* request.json: code and auto_fix
Requests == [code : RequestCodes, auto_fix : BOOLEAN]

\* result[key] = value
SetKey(dict, key, value) == (key :> value) @@ dict

\* what code_generator.generate(ast) and get_ir_data() do: return, raise a
\* VerilogCompilerError, or raise another exception
GeneratorOutcomes == {"generated", "VerilogCodeGenerationError", "Exception"}

\* the message of an exception the code generator raised
GeneratorMessage == <<"code generation failed">>

\* token_list: the tokens but EOF, as dicts
token_list(toks) == SelectSeq(toks, LAMBDA tok : tok.type # "EOF")

\* compile_verilog_code: the dict returned after code generation
CompileSuccess(toks) ==
    [tokens |-> token_list(toks), token_count |-> Len(token_list(toks)), success |-> TRUE]

\* compile_verilog_code: except VerilogCompilerError as e
CompileFailure(e) ==
    [success |-> FALSE, error |-> format_error(e.message, e.line, e.column),
     error_type |-> e.type, line |-> e.line, column |-> e.column,
     tokens |-> <<>>, token_count |-> 0]

\* compile_verilog_code: except Exception as e
UnexpectedFailure(message) ==
    [success |-> FALSE,
     error |-> <<"U","n","e","x","p","e","c","t","e","d"," ","e","r","r","o","r",":"," ">>
               \o message,
     error_type |-> "UnexpectedError", tokens |-> <<>>, token_count |-> 0]

\* the list the handler stores under fixes_applied
FixDicts(fixes) ==
    [k \in DOMAIN fixes |->
        [line |-> fixes[k].line_number, original |-> fixes[k].original_line,
         fixed |-> fixes[k].fixed_line, type |-> fixes[k].fix_type]]

\* a request has arrived; no lexer and no parser exist yet
CompileInit ==
    /\ source = <<>>
    /\ lines = SplitLines(source)
    /\ line_num = 1
    /\ pos = 0
    /\ column = 1
    /\ tokens = <<>>
    /\ pc = "idle"
    /\ ParseIdle
    /\ ReportIdle
    /\ request \in Requests
    /\ hpc = "received"
    /\ app_result = None
    /\ fixed_code = None
    /\ fixes_applied = <<>>
    /\ fixed_result = None
    /\ calls = <<>>
    /\ response = None

\* compile_verilog_code(source_code) is entered: VerilogLexer() and
\* VerilogParser() are constructed
EnterCompile(source_code) ==
    /\ source' = source_code
    /\ lines' = SplitLines(source_code)
    /\ line_num' = 1
    /\ pos' = 0
    /\ column' = 1
    /\ tokens' = <<>>
    /\ pc' = "lex"
    /\ p_tokens' = <<>>
    /\ current' = 0
    /\ symbol_table' = NewSymbolTable
    /\ module_name' = None
    /\ ports' = <<>>
    /\ items' = <<>>
    /\ result' = NoNode
    /\ error' = None
    /\ ppc' = "start"
    /\ UNCHANGED <<input, reportvars>>

\* compile_verilog_code returns the dict d to the handler
LeaveCompile(d) ==
    /\ calls' = Append(calls, [call |-> "compile_verilog_code", code |-> source,
                               result |-> d])
    /\ IF hpc = "first"
       THEN /\ app_result' = d
            /\ hpc' = "compiled"
            /\ fixed_result' = fixed_result
       ELSE /\ fixed_result' = d
            /\ hpc' = "recompiled"
            /\ app_result' = app_result
    /\ UNCHANGED <<request, fixed_code, fixes_applied, response, lexvars, parsevars,
                   reportvars>>

\* not verilog_code.strip(): the code holds white space and line ends only
IsBlank(code) == \A k \in DOMAIN code : code[k] \in SpaceChars \cup {"\n"}

\* if not verilog_code.strip(): the handler returns at once
BlankCode ==
    /\ hpc = "received"
    /\ IsBlank(request.code)
    /\ response' = [success |-> FALSE,
                    error |-> <<"Please provide Verilog code to compile">>]
    /\ hpc' = "returned"
    /\ UNCHANGED <<request, app_result, fixed_code, fixes_applied, fixed_result, calls,
                   lexvars, parsevars, reportvars>>

\* result = compile_verilog_code(verilog_code): the call is entered
FirstCompile ==
    /\ hpc = "received"
    /\ ~IsBlank(request.code)
    /\ hpc' = "first"
    /\ EnterCompile(request.code)
    /\ UNCHANGED <<request, app_result, fixed_code, fixes_applied, fixed_result, calls,
                   response>>

\* the parser raised: except VerilogCompilerError as e
CompileRaised ==
    /\ hpc \in {"first", "second"}
    /\ ppc = "error"
    /\ LeaveCompile(CompileFailure(error))

\* the parser returned the AST: the code generator runs, and the dict of a
\* success or of what the generator raised is returned
CodeGeneration ==
    /\ hpc \in {"first", "second"}
    /\ ppc = "done"
    /\ \E outcome \in GeneratorOutcomes :
          LeaveCompile(CASE outcome = "generated" -> CompileSuccess(tokens)
                         [] outcome = "VerilogCodeGenerationError" ->
                               CompileFailure([type |-> "VerilogCodeGenerationError",
                                               message |-> GeneratorMessage,
                                               line |-> 0, column |-> 0])
                         [] outcome = "Exception" -> UnexpectedFailure(GeneratorMessage))

\* a plausible slip: the fixer runs after every failed compilation
NeedsFixAlways(compiled, auto_fix) == ~compiled.success

\* if not result['success'] and auto_fix
NeedsFix(compiled, auto_fix) == ~compiled.success /\ auto_fix

\* the first compilation succeeded or auto_fix is off: nothing is fixed
SkipFix ==
    /\ hpc = "compiled"
    /\ ~NeedsFix(app_result, request.auto_fix)
    /\ hpc' = "respond"
    /\ UNCHANGED <<request, app_result, fixed_code, fixes_applied, fixed_result, calls,
                   response, lexvars, parsevars, reportvars>>

\* the fix made by RunFixer: fixed_code, fixes_applied = fixer.fix_code(...)
\* and the test of fixes_applied
Fixer(fixed) ==
    /\ fixed_code' = fixed.code
    /\ fixes_applied' = fixed.fixes
    /\ calls' = Append(calls, [call |-> "fix_code", code |-> request.code,
                               fixes |-> fixed.fixes])
    /\ hpc' = IF fixed.fixes # <<>> THEN "fixed" ELSE "respond"

\* the first compilation failed and auto_fix is on: the fixer runs on the
\* code of the request
RunFixer ==
    /\ hpc = "compiled"
    /\ NeedsFix(app_result, request.auto_fix)
    /\ Fixer(fix_code(request.code))
    /\ UNCHANGED <<request, app_result, fixed_result, response, lexvars, parsevars,
                   reportvars>>

\* fixed_result = compile_verilog_code(fixed_code): the call is entered
SecondCompile ==
    /\ hpc = "fixed"
    /\ hpc' = "second"
    /\ EnterCompile(fixed_code)
    /\ UNCHANGED <<request, app_result, fixed_code, fixes_applied, fixed_result, calls,
                   response>>

\* if fixed_result['success']: the result is the fixed result with the fix
\* information; else the first result with auto_fix_attempted
MergeFixed ==
    /\ hpc = "recompiled"
    /\ app_result' =
          IF fixed_result.success
          THEN SetKey(SetKey(SetKey(fixed_result, "auto_fixed", TRUE),
                             "fixed_code", fixed_code),
                      "fixes_applied", FixDicts(fixes_applied))
          ELSE SetKey(SetKey(SetKey(app_result, "auto_fix_attempted", TRUE),
                             "fixes_applied", FixDicts(fixes_applied)),
                      "auto_fix_message",
                      <<"Auto-fix attempted but compilation still failed">>)
    /\ hpc' = "respond"
    /\ UNCHANGED <<request, fixed_code, fixes_applied, fixed_result, calls, response,
                   lexvars, parsevars, reportvars>>

\* the result is saved if there is a database, which gives compilation_id,
\* the execution time is stored and the result is returned
Respond ==
    /\ hpc = "respond"
    /\ \E saved \in BOOLEAN :
          response' = SetKey(IF saved THEN SetKey(app_result, "compilation_id", 1)
                                      ELSE app_result,
                             "execution_time", 0)
    /\ hpc' = "returned"
    /\ UNCHANGED <<request, app_result, fixed_code, fixes_applied, fixed_result, calls,
                   lexvars, parsevars, reportvars>>

CompileNext ==
    \/ BlankCode \/ FirstCompile
    \/ TokenizeCall \/ ParseStart \/ ParseItem \/ ParseBodyEof \/ ParseEndModule
    \/ CompileRaised \/ CodeGeneration
    \/ SkipFix \/ RunFixer \/ SecondCompile \/ MergeFixed \/ Respond

CompileSpec == CompileInit /\ [][CompileNext]_vars

-----------------------------------------------------------------------------
(* C28: the order of the steps of one /compile request                     *)

\* the compilations made so far
Compilations == SelectSeq(calls, LAMBDA c : c.call = "compile_verilog_code")

====
